---------------------------- MODULE Spec2Model ----------------------------
(***************************************************************************)
(* A model of the multiJob concurrency library: multi::Barrier,            *)
(* multi::Block, multi::Thread, multiJob, multiJobQueue,                   *)
(* multiJobThreadQueue and multiJobMultiThreadQueue, and of the barrier    *)
(* test program.                                                           *)
(*                                                                         *)
(* Granularity.  A std::mutex critical section that contains no blocking   *)
(* call is one step (barrier, block, queue, job and running mutexes).      *)
(* multiJobThreadQueue::m_threadMutex is held across a spin loop by        *)
(* setJobQueue, so it is a variable with an owner.  A                      *)
(* condition_variable::wait(lock, pred) is a parked thread that re-checks  *)
(* pred once it has been notified or has woken spuriously.                 *)
(***************************************************************************)
EXTENDS Integers, Sequences, FiniteSets, TLC

\* ------------------------------------------------------------------ bounds
\* Largest max_count a barrier of SpecBarrier is constructed with.
MaxCount == 3
\* Number of block() calls each party of SpecBarrier makes at most.
MaxBlockCalls == 2
\* m_blockedCount of the barriers of SpecBarrier and of the test program is
\* counted up to this value and stays there.
MaxBlockedCount == 4

\* Jobs are 1..NumJobs.
NumJobs == 2
\* add() calls made in all by the producers of SpecQueue.
MaxAdds == 2
\* remove and cancel calls made in all by the user thread of SpecQueue.
MaxUserOps == 1
\* add() calls made in all by the producer of SpecPool and of SpecSwap.
MaxPoolAdds == 1
\* setJobQueue() calls made in all by the user thread of SpecSwap.
MaxSwaps == 2
\* Jobs in the queue, at most, when the pool of SpecResize is constructed on it.
MaxQueued == 2
\* setNumberOfThreads() calls made in all on the pool of SpecResize.
MaxResizes == 2
\* reset() calls made in all on the barrier of SpecReset.
MaxResets == 2
\* add() calls made in all by the thread of SpecAdd.
MaxRepeats == 3
\* set() and reset() calls made in all by the second controlling thread of SpecBlock.
MaxSetCalls == 2

\* ------------------------------------------------------- program constants
\* iterations of the loop of TestThread::run
NumIterations == 10
\* Thread::pause, "m_pauseBarrier->reset(2);"
PauseMaxCount == 2

\* ----------------------------------------------------------------- threads
Parties   == {"b1", "b2", "b3"}
Workers   == {"w1", "w2"}
Producers == {"p1", "p2"}
Consumers == {"c1", "c2"}
Users     == {"u1"}
Threads   == Parties \cup Workers \cup Producers \cup Consumers \cup Users \cup {"main"}

Jobs    == 1..NumJobs
NoJob   == 0
Queues  == {"q1", "q2"}
NoQueue == "nullptr"

WorkerSeq == <<"w1", "w2">>

VARIABLES
  pc,        \* pc[t]: the statement thread t is at
  wait,      \* wait[t]: the condition variable t is parked on, and whether it was woken
  local,     \* local[t]: the local variables of the function t is executing
  barrier,   \* barrier[b]: m_maxCount, m_blockedCount, m_waitCount of Barrier b
  thread,    \* thread[w]: m_running, m_interrupt, m_thread of Thread w
  queue,     \* queue[q]: m_jobQueue and m_block (m_release, m_waitCount) of multiJobQueue q
  job,       \* job[j]: m_state of multiJob j
  hist       \* history: calls[t] block() calls made by party t,
             \*   launches[w] OS threads spawned for worker w,
             \*   adds: add() calls made, addCalls[j]: of job j, returned: jobs whose
             \*   add() has returned, before: pairs <<a, b>> with add(a) returned when
             \*   add(b) was called, waived: jobs added with guaranteeUniqueFlag false,
             \*   popped: the jobs nextJob returned, in order, removed: jobs a remove
             \*   call took out, canceled: jobs cancel() was called on, userOps: calls
             \*   of the user thread, started: jobs multiJob::start was called on,
             \*   inBody: workers inside a job's run(), cancelReturned: workers whose
             \*   cancel() has returned, called: the calls (pause, resume,
             \*   cancel) the controlling thread has made, done: those that returned,
             \*   callbacks: the multiJobCallback calls delivered for TheJob, in order,
             \*   passed: threads that called block() after release() returned,
             \*   log: the add() calls made on TheQueue and the multiJobQueue
             \*   callbacks (adding, added) delivered, in order,
             \*   base: the block() calls that had been made when the last reset()
             \*   returned, failed: workers in which the body of a job threw

vars == <<pc, wait, local, barrier, thread, queue, job, hist>>

Local0 == [idx |-> 1, round |-> 1, x |-> 0,
           job |-> NoJob, queue |-> NoQueue, flag |-> FALSE,
           value |-> {}, newState |-> {}, callback |-> "none", locks |-> {},
           oldState |-> {}]
Hist0  == [calls |-> [t \in Threads |-> 0], launches |-> [w \in Workers |-> 0],
           adds |-> 0, addCalls |-> [j \in Jobs |-> 0], returned |-> {},
           before |-> {}, waived |-> {}, popped |-> <<>>, removed |-> {},
           canceled |-> {}, userOps |-> 0,
           started |-> {}, inBody |-> {}, cancelReturned |-> {},
           called |-> {}, done |-> {}, callbacks |-> <<>>, passed |-> {},
           log |-> <<>>, base |-> 0, failed |-> {}]

\* ------------------------------------------------------ condition variables
NoWait == [cv |-> <<>>, notified |-> FALSE]

\* condition_variable::wait: the calling thread parks on cv (the mutex is released)
Park(w, t, cv) == [w EXCEPT ![t] = [cv |-> cv, notified |-> FALSE]]

\* the parked thread leaves wait()
Unpark(w, t) == [w EXCEPT ![t] = NoWait]

\* condition_variable::notify_all
NotifyAll(w, cv) ==
  [t \in DOMAIN w |-> IF w[t].cv = cv THEN [w[t] EXCEPT !.notified = TRUE] ELSE w[t]]

\* a spurious wakeup of a parked thread: wait(lock, pred) re-checks pred
SpuriousWake(t) ==
  /\ wait[t] # NoWait
  /\ ~wait[t].notified
  /\ wait' = [wait EXCEPT ![t].notified = TRUE]
  /\ UNCHANGED <<pc, local, barrier, thread, queue, job, hist>>

\* ------------------------------------------------------------ multi::Barrier
BarrierNames == {"bar", "barrierStart", "barrierFinished"} \cup Workers

Barrier(maxCount) ==
  [m_maxCount |-> maxCount, m_blockedCount |-> 0, m_waitCount |-> 0]

\* m_blockedCount is an int that block() only increments.  Every comparison the
\* code makes with it (with m_maxCount, with 0) is the same for all the values
\* from the largest m_maxCount of the barrier on, so it is counted up to there:
\* m_pauseBarrier has m_maxCount 1 or PauseMaxCount, the others at most
\* MaxBlockedCount.
BlockedCap(b) == IF b \in Workers THEN PauseMaxCount ELSE MaxBlockedCount
Saturate(b, n) == IF n > BlockedCap(b) THEN BlockedCap(b) ELSE n

ConditionalBlock(b) == <<"Barrier", b, "m_conditionalBlock">>
ConditionalWait(b)  == <<"Barrier", b, "m_conditionalWait">>

\* Barrier::block with the comparison off by one: the arrival before the last passes
Barrier_block_offByOne(t, b, waitPc, retPc) ==
  LET n == Saturate(b, barrier[b].m_blockedCount + 1) IN
  IF n + 1 < barrier[b].m_maxCount
  THEN /\ barrier' = [barrier EXCEPT ![b].m_blockedCount = n,
                                     ![b].m_waitCount = @ + 1]
       /\ wait' = Park(wait, t, ConditionalBlock(b))
       /\ pc' = [pc EXCEPT ![t] = waitPc]
  ELSE /\ barrier' = [barrier EXCEPT ![b].m_blockedCount = n]
       /\ wait' = NotifyAll(NotifyAll(wait, ConditionalBlock(b)), ConditionalWait(b))
       /\ pc' = [pc EXCEPT ![t] = retPc]

\* Barrier::block, from the lock to the wait (the thread parks) or to the return
Barrier_block(t, b, waitPc, retPc) ==
  LET n == Saturate(b, barrier[b].m_blockedCount + 1) IN
  IF n < barrier[b].m_maxCount
  THEN /\ barrier' = [barrier EXCEPT ![b].m_blockedCount = n,
                                     ![b].m_waitCount = @ + 1]
       /\ wait' = Park(wait, t, ConditionalBlock(b))
       /\ pc' = [pc EXCEPT ![t] = waitPc]
  ELSE /\ barrier' = [barrier EXCEPT ![b].m_blockedCount = n]
       /\ wait' = NotifyAll(NotifyAll(wait, ConditionalBlock(b)), ConditionalWait(b))
       /\ pc' = [pc EXCEPT ![t] = retPc]

\* Barrier::block, the parked thread woken: it re-checks m_blockedCount >= m_maxCount
Barrier_block_wake(t, b, retPc) ==
  /\ wait[t].cv = ConditionalBlock(b)
  /\ wait[t].notified
  /\ IF barrier[b].m_blockedCount >= barrier[b].m_maxCount
     THEN /\ barrier' = [barrier EXCEPT ![b].m_waitCount = @ - 1]
          /\ wait' = NotifyAll(Unpark(wait, t), ConditionalWait(b))
          /\ pc' = [pc EXCEPT ![t] = retPc]
     ELSE /\ wait' = [wait EXCEPT ![t].notified = FALSE]
          /\ UNCHANGED <<barrier, pc>>

\* a reset that does not zero the counters when nobody is parked
Barrier_reset_keepCount(t, b, waitPc, retPc) ==
  IF barrier[b].m_waitCount > 0
  THEN /\ barrier' = [barrier EXCEPT ![b].m_blockedCount = barrier[b].m_maxCount]
       /\ wait' = Park(NotifyAll(wait, ConditionalBlock(b)), t, ConditionalWait(b))
       /\ pc' = [pc EXCEPT ![t] = waitPc]
  ELSE /\ UNCHANGED <<barrier, wait>>
       /\ pc' = [pc EXCEPT ![t] = retPc]

\* Barrier::reset, from the lock to the wait for the parked threads or to the return
Barrier_reset(t, b, waitPc, retPc) ==
  IF barrier[b].m_waitCount > 0
  THEN /\ barrier' = [barrier EXCEPT ![b].m_blockedCount = barrier[b].m_maxCount]
       /\ wait' = Park(NotifyAll(wait, ConditionalBlock(b)), t, ConditionalWait(b))
       /\ pc' = [pc EXCEPT ![t] = waitPc]
  ELSE /\ barrier' = [barrier EXCEPT ![b].m_blockedCount = 0, ![b].m_waitCount = 0]
       /\ wait' = wait
       /\ pc' = [pc EXCEPT ![t] = retPc]

\* Barrier::reset, woken: it re-checks m_waitCount < 1, then zeroes the counters
Barrier_reset_wake(t, b, retPc) ==
  /\ wait[t].cv = ConditionalWait(b)
  /\ wait[t].notified
  /\ IF barrier[b].m_waitCount < 1
     THEN /\ barrier' = [barrier EXCEPT ![b].m_blockedCount = 0, ![b].m_waitCount = 0]
          /\ wait' = Unpark(wait, t)
          /\ pc' = [pc EXCEPT ![t] = retPc]
     ELSE /\ wait' = [wait EXCEPT ![t].notified = FALSE]
          /\ UNCHANGED <<barrier, pc>>

\* Barrier::reset(int), "m_maxCount = maxCount;": a critical section of its own,
\* entered after reset() has left the mutex
Barrier_reset_maxCount(t, b, maxCount, retPc) ==
  /\ barrier' = [barrier EXCEPT ![b].m_maxCount = maxCount]
  /\ pc' = [pc EXCEPT ![t] = retPc]

\* -------------------------------------------------------------- multi::Thread
Thread == [m_running |-> FALSE, m_interrupt |-> FALSE, m_thread |-> FALSE]

RunningCondition(w) == <<"Thread", w, "m_runningCondition">>

isRunning(w)       == thread[w].m_running
isInterruptable(w) == thread[w].m_interrupt

\* Thread::start, "if(isInterruptable()||isRunning()) return;"
Thread_start_check(c, w, setPc, retPc) ==
  /\ pc' = [pc EXCEPT ![c] = IF isInterruptable(w) \/ isRunning(w) THEN retPc ELSE setPc]
  /\ UNCHANGED <<wait, barrier, thread, queue, job, hist>>

\* Thread::start, "m_running = true;"
Thread_start_set(c, w, spawnPc) ==
  /\ thread' = [thread EXCEPT ![w].m_running = TRUE]
  /\ pc' = [pc EXCEPT ![c] = spawnPc]
  /\ UNCHANGED <<wait, barrier, queue, job, hist>>

\* Thread::start, the join of a joinable m_thread (it waits for the OS thread to
\* have left runInternal) and the new std::thread, which enters runInternal
Thread_start_spawn(c, w, retPc) ==
  /\ thread[w].m_thread => pc[w] = "idle"
  /\ thread' = [thread EXCEPT ![w].m_thread = TRUE]
  /\ pc' = [pc EXCEPT ![c] = retPc, ![w] = "ri_start"]
  /\ hist' = [hist EXCEPT !.launches[w] = @ + 1]
  /\ UNCHANGED <<wait, barrier, queue, job>>

\* Thread::runInternal, "if(!isInterruptable()) run();"
Thread_runInternal(w, runPc) ==
  /\ pc[w] = "ri_start"
  /\ pc' = [pc EXCEPT ![w] = IF isInterruptable(w) THEN "ri_end" ELSE runPc]
  /\ UNCHANGED <<wait, local, barrier, thread, queue, job, hist>>

\* Thread::runInternal, "m_running = false; m_runningCondition.notify_all();"
Thread_runInternal_end(w) ==
  /\ pc[w] = "ri_end"
  /\ thread' = [thread EXCEPT ![w].m_running = FALSE]
  /\ wait' = NotifyAll(wait, RunningCondition(w))
  /\ pc' = [pc EXCEPT ![w] = "idle"]
  /\ UNCHANGED <<local, barrier, queue, job, hist>>

\* Thread::interrupt, "if(m_interrupt) throw Interrupt();": the throw unwinds run()
Thread_interrupt(w, blockPc) ==
  /\ pc' = [pc EXCEPT ![w] = IF thread[w].m_interrupt THEN "ri_end" ELSE blockPc]
  /\ UNCHANGED <<wait, barrier, thread, queue, job, hist>>

\* ------------------------------------------------------------- multi::Block
Block(releaseFlag) == [m_release |-> releaseFlag, m_waitCount |-> 0]

ConditionVariable(q) == <<"Block", q, "m_conditionVariable">>
BlockConditionalWait(q) == <<"Block", q, "m_conditionalWait">>

\* Block::set: m_release under the mutex (the caller notifies m_conditionVariable)
Block_set(qs, q, releaseFlag) == [qs EXCEPT ![q].m_block.m_release = releaseFlag]

\* a release that leaves m_release as it is
Block_release_keep(qs, q) == qs

\* Block::release: m_release true under the mutex (and notify_all, by the caller)
Block_release(qs, q) == [qs EXCEPT ![q].m_block.m_release = TRUE]

\* Block::reset: m_release false and m_waitCount 0 under the mutex, no notify
Block_reset(qs, q) == [qs EXCEPT ![q].m_block = Block(FALSE)]

\* Block::block, from the lock to the wait (the thread parks) or to the return
Block_block(t, q, waitPc, retPc) ==
  IF ~queue[q].m_block.m_release
  THEN /\ queue' = [queue EXCEPT ![q].m_block.m_waitCount = @ + 1]
       /\ wait' = Park(wait, t, ConditionVariable(q))
       /\ pc' = [pc EXCEPT ![t] = waitPc]
  ELSE /\ queue' = queue
       /\ wait' = NotifyAll(NotifyAll(wait, ConditionVariable(q)),
                            BlockConditionalWait(q))
       /\ pc' = [pc EXCEPT ![t] = retPc]

\* Block::block, the parked thread woken: it re-checks m_release
Block_block_wake(t, q, retPc) ==
  /\ wait[t].cv = ConditionVariable(q)
  /\ wait[t].notified
  /\ IF queue[q].m_block.m_release
     THEN /\ queue' = [queue EXCEPT ![q].m_block.m_waitCount =
                         IF @ - 1 < 0 THEN 0 ELSE @ - 1]
          /\ wait' = NotifyAll(NotifyAll(Unpark(wait, t), ConditionVariable(q)),
                               BlockConditionalWait(q))
          /\ pc' = [pc EXCEPT ![t] = retPc]
     ELSE /\ wait' = [wait EXCEPT ![t].notified = FALSE]
          /\ UNCHANGED <<queue, pc>>

\* ------------------------------------------------------------------ multiJob
\* multiJob::State, a bit vector: the set of the bits that are set
multiJob_NONE     == {}
multiJob_READY    == {"READY"}
multiJob_RUNNING  == {"RUNNING"}
multiJob_CANCEL   == {"CANCEL"}
multiJob_FINISHED == {"FINISHED"}
multiJob_ALL ==
  multiJob_READY \cup multiJob_RUNNING \cup multiJob_CANCEL \cup multiJob_FINISHED

multiJob == [m_state |-> multiJob_READY]

\* multiJob::setState: the new m_state
setState(m_state, value, on) ==
  IF on THEN (m_state \cup value) \cap multiJob_ALL
        ELSE (m_state \ value) \cap multiJob_ALL

\* multiJob::resetState: the new m_state
resetState(m_state, value) ==
  IF value # m_state THEN setState(multiJob_NONE, value, TRUE) ELSE m_state

\* multiJob::cancel, ready, finished: the new m_state
cancel(m_state)   == setState(m_state, multiJob_CANCEL, TRUE)
\* a ready() that sets the READY bit and keeps the others
ready_keep(m_state) == setState(m_state, multiJob_READY, TRUE)
ready(m_state)    == resetState(m_state, multiJob_READY)
finished(m_state) ==
  resetState(m_state, (m_state \cap multiJob_CANCEL) \cup multiJob_FINISHED)

isCanceled(j) == job[j].m_state \cap multiJob_CANCEL # {}
isReady(j)    == job[j].m_state \cap multiJob_READY # {}
isFinished(j) == job[j].m_state \cap multiJob_FINISHED # {}

\* ------------------------------------------------------------- multiJobQueue
multiJobQueue == [m_jobQueue |-> <<>>, m_block |-> Block(FALSE)]

Range(seq) == {seq[i] : i \in 1..Len(seq)}
Count(seq, j) == Cardinality({i \in 1..Len(seq) : seq[i] = j})

\* std::list::erase of the element at position i
Erase(seq, i) == SubSeq(seq, 1, i - 1) \o SubSeq(seq, i + 1, Len(seq))

\* multiJobQueue::findByPointer, findByName, findById: the position, 0 for end().
\* Every job has a name and an id of its own, not empty: job j has name j and id j.
findByPointer(seq, j) ==
  IF j \in Range(seq) THEN CHOOSE i \in 1..Len(seq) :
                             seq[i] = j /\ \A k \in 1..(i - 1) : seq[k] # j
  ELSE 0
findByName(seq, name) ==
  IF \E i \in 1..Len(seq) : seq[i] = name
  THEN CHOOSE i \in 1..Len(seq) :
         seq[i] = name /\ \A k \in 1..(i - 1) : seq[k] # name
  ELSE 0
findById(seq, id) ==
  IF \E i \in 1..Len(seq) : seq[i] = id
  THEN CHOOSE i \in 1..Len(seq) :
         seq[i] = id /\ \A k \in 1..(i - 1) : seq[k] # id
  ELSE 0

\* an add that does not look for the job in the list
Queue_add_check_blind(t, q, j, unique, readyPc, retPc) ==
  /\ pc' = [pc EXCEPT ![t] = readyPc]
  /\ UNCHANGED <<queue, wait>>

\* multiJobQueue::add, the first locked section: with guaranteeUniqueFlag, a job
\* already in the list only releases the block
Queue_add_check(t, q, j, unique, readyPc, retPc) ==
  IF unique /\ findByPointer(queue[q].m_jobQueue, j) # 0
  THEN /\ queue' = Block_set(queue, q, TRUE)
       /\ wait' = NotifyAll(wait, ConditionVariable(q))
       /\ pc' = [pc EXCEPT ![t] = retPc]
  ELSE /\ pc' = [pc EXCEPT ![t] = readyPc]
       /\ UNCHANGED <<queue, wait>>

\* multiJobQueue::add, "cb->adding(...); job->ready();"
Queue_add_ready(t, j, pushPc) ==
  /\ job' = [job EXCEPT ![j].m_state = ready(@)]
  /\ pc' = [pc EXCEPT ![t] = pushPc]

Queue_add_push_front(t, q, j, setPc) ==
  /\ queue' = [queue EXCEPT ![q].m_jobQueue = <<j>> \o @]
  /\ pc' = [pc EXCEPT ![t] = setPc]

\* multiJobQueue::add, "m_jobQueue.push_back(job);" under the mutex
Queue_add_push(t, q, j, setPc) ==
  /\ queue' = [queue EXCEPT ![q].m_jobQueue = Append(@, j)]
  /\ pc' = [pc EXCEPT ![t] = setPc]

\* multiJobQueue::add that leaves the block as it is
Queue_add_set_noRelease(t, q, retPc) ==
  /\ pc' = [pc EXCEPT ![t] = retPc]
  /\ UNCHANGED <<queue, wait>>

\* multiJobQueue::add, "cb->added(...); m_block.set(true);"
Queue_add_set(t, q, retPc) ==
  /\ queue' = Block_set(queue, q, TRUE)
  /\ wait' = NotifyAll(wait, ConditionVariable(q))
  /\ pc' = [pc EXCEPT ![t] = retPc]

\* multiJobQueue::removeByName, the locked section: find and erase
Queue_removeByName_erase(t, q, name, emptyPc) ==
  LET i == findByName(queue[q].m_jobQueue, name) IN
  /\ queue' = [queue EXCEPT ![q].m_jobQueue = IF i # 0 THEN Erase(@, i) ELSE @]
  /\ local' = [local EXCEPT ![t].job = IF i # 0 THEN queue[q].m_jobQueue[i] ELSE NoJob]
  /\ pc' = [pc EXCEPT ![t] = emptyPc]

\* multiJobQueue::removeByName, "!m_jobQueue.empty()": read without the mutex
Queue_removeByName_empty(t, q, setPc) ==
  /\ local' = [local EXCEPT ![t].flag = (queue[q].m_jobQueue # <<>>)]
  /\ pc' = [pc EXCEPT ![t] = setPc]

\* multiJobQueue::removeByName, "m_block.set(...)" with the value read, then removed()
Queue_removeByName_set(t, q, retPc) ==
  /\ queue' = Block_set(queue, q, local[t].flag)
  /\ wait' = NotifyAll(wait, ConditionVariable(q))
  /\ pc' = [pc EXCEPT ![t] = retPc]

\* multiJobQueue::removeById: erase and m_block.set under the mutex
Queue_removeById(t, q, id, retPc) ==
  LET i == findById(queue[q].m_jobQueue, id)
      left == IF i # 0 THEN Erase(queue[q].m_jobQueue, i) ELSE queue[q].m_jobQueue
  IN
  /\ queue' = Block_set([queue EXCEPT ![q].m_jobQueue = left], q, left # <<>>)
  /\ wait' = NotifyAll(wait, ConditionVariable(q))
  /\ local' = [local EXCEPT ![t].job = IF i # 0 THEN queue[q].m_jobQueue[i] ELSE NoJob]
  /\ pc' = [pc EXCEPT ![t] = retPc]

\* multiJobQueue::remove: erase under the mutex; the block is left as it is
Queue_remove(t, q, j, retPc) ==
  LET i == findByPointer(queue[q].m_jobQueue, j) IN
  /\ queue' = [queue EXCEPT ![q].m_jobQueue = IF i # 0 THEN Erase(@, i) ELSE @]
  /\ local' = [local EXCEPT ![t].job = IF i # 0 THEN j ELSE NoJob]
  /\ pc' = [pc EXCEPT ![t] = retPc]

\* multiJobQueue::nextJob, "bool emptyFlag = m_jobQueue.empty();" under the mutex
Queue_nextJob_empty(t, q, blockIfEmptyFlag, blockPc, popPc) ==
  /\ pc' = [pc EXCEPT ![t] = IF blockIfEmptyFlag /\ queue[q].m_jobQueue = <<>>
                             THEN blockPc ELSE popPc]

\* the canceled jobs at the head of the list, which nextJob erases
RECURSIVE CanceledHead(_)
CanceledHead(seq) ==
  IF seq # <<>> /\ isCanceled(Head(seq)) THEN 1 + CanceledHead(Tail(seq)) ELSE 0

\* a nextJob that returns the first job and leaves it in the list
Queue_nextJob_pop_keep(t, q, retPc) ==
  /\ job' = job
  /\ queue' = Block_set(queue, q, queue[q].m_jobQueue # <<>>)
  /\ wait' = NotifyAll(wait, ConditionVariable(q))
  /\ local' = [local EXCEPT ![t].job =
                 IF queue[q].m_jobQueue = <<>> THEN NoJob ELSE Head(queue[q].m_jobQueue)]
  /\ pc' = [pc EXCEPT ![t] = retPc]

\* multiJobQueue::nextJob, the second locked section: the canceled jobs at the
\* head get finished(), the first job behind them is erased and returned, and
\* the block is set to "not empty"
Queue_nextJob_pop(t, q, retPc) ==
  LET seq  == queue[q].m_jobQueue
      n    == CanceledHead(seq)
      rest == SubSeq(seq, n + 1, Len(seq))
      left == IF rest = <<>> THEN rest ELSE Tail(rest)
  IN
  /\ job' = [j \in Jobs |->
               IF \E i \in 1..n : seq[i] = j
               THEN [job[j] EXCEPT !.m_state = finished(@)] ELSE job[j]]
  /\ queue' = Block_set([queue EXCEPT ![q].m_jobQueue = left], q, left # <<>>)
  /\ wait' = NotifyAll(wait, ConditionVariable(q))
  /\ local' = [local EXCEPT ![t].job = IF rest = <<>> THEN NoJob ELSE Head(rest)]
  /\ pc' = [pc EXCEPT ![t] = retPc]

\* ------------------------------------------------- SpecBarrier: one barrier
\* Parties call block() on the barrier "bar"; nobody calls reset.
PartyBlock(t) ==
  /\ pc[t] = "idle"
  /\ hist.calls[t] < MaxBlockCalls
  /\ hist' = [hist EXCEPT !.calls[t] = @ + 1]
  /\ Barrier_block(t, "bar", "bar_wait", "idle")
  /\ UNCHANGED <<local, thread, queue, job>>

PartyWake(t) ==
  /\ pc[t] = "bar_wait"
  /\ Barrier_block_wake(t, "bar", "idle")
  /\ UNCHANGED <<local, thread, queue, job, hist>>

InitBarrier ==
  /\ pc = [t \in Threads |-> "idle"]
  /\ wait = [t \in Threads |-> NoWait]
  /\ \E n \in 1..MaxCount :
       barrier = [b \in BarrierNames |-> Barrier(IF b = "bar" THEN n ELSE 1)]
  /\ local = [t \in Threads |-> Local0]
  /\ thread = [w \in Workers |-> Thread]
  /\ queue = [q \in Queues |-> multiJobQueue]
  /\ job = [j \in Jobs |-> multiJob]
  /\ hist = Hist0

NextBarrier ==
  \E t \in Parties : PartyBlock(t) \/ PartyWake(t) \/ SpuriousWake(t)

SpecBarrier == InitBarrier /\ [][NextBarrier]_vars

\* a notified party is scheduled again: it re-acquires the mutex and re-checks
FairBarrier ==
  SpecBarrier /\ \A t \in Parties : WF_vars(PartyWake(t))

RECURSIVE SumCalls(_)
SumCalls(S) ==
  IF S = {} THEN 0
  ELSE LET t == CHOOSE x \in S : TRUE IN hist.calls[t] + SumCalls(S \ {t})

\* block() calls that have arrived, that are parked, and that have returned
Arrived  == SumCalls(Parties)
Parked   == Cardinality({t \in Parties : pc[t] = "bar_wait"})
Returned == Arrived - Parked

\* C5: for a barrier with max_count = N and no reset, no block() call has
\* returned while fewer than N calls have arrived, and once N calls have
\* arrived every call that arrived returns (nobody stays parked).
C5_BarrierRendezvous ==
  /\ [](Returned > 0 => Arrived >= barrier["bar"].m_maxCount)
  /\ ((Arrived >= barrier["bar"].m_maxCount) ~> (Parked = 0))

\* N = 3 parties have arrived, two of them were parked, and all three returned
C5_Witness ==
  /\ barrier["bar"].m_maxCount = 3
  /\ Arrived = 3
  /\ Returned = 3

\* ------------------------------------- SpecTest: the barrier test program
\* main (src/test): two TestThread workers, barrierStart(2), barrierFinished(3);
\* round 1, then reset of both barriers, start() on both workers, round 2.
AfterStart(i) == IF i < Len(WorkerSeq) THEN "m_start" ELSE "m_block"

\* main, "thread->start();" of the loop over the threads: Thread::start's check
MainStart ==
  /\ pc["main"] = "m_start"
  /\ Thread_start_check("main", WorkerSeq[local["main"].idx], "m_start_set",
                        AfterStart(local["main"].idx))
  /\ local' = [local EXCEPT !["main"].idx =
                 IF pc'["main"] = "m_start_set" THEN @ ELSE @ + 1]

MainStartSet ==
  /\ pc["main"] = "m_start_set"
  /\ Thread_start_set("main", WorkerSeq[local["main"].idx], "m_start_spawn")
  /\ UNCHANGED local

MainStartSpawn ==
  /\ pc["main"] = "m_start_spawn"
  /\ Thread_start_spawn("main", WorkerSeq[local["main"].idx],
                        AfterStart(local["main"].idx))
  /\ local' = [local EXCEPT !["main"].idx = @ + 1]

\* main, "barrierFinished.block();"
MainBlock ==
  /\ pc["main"] = "m_block"
  /\ Barrier_block("main", "barrierFinished", "m_block_wait",
                   IF local["main"].round = 1 THEN "m_reset_fin" ELSE "done")
  /\ UNCHANGED <<local, thread, queue, job, hist>>

MainBlockWake ==
  /\ pc["main"] = "m_block_wait"
  /\ Barrier_block_wake("main", "barrierFinished",
                        IF local["main"].round = 1 THEN "m_reset_fin" ELSE "done")
  /\ UNCHANGED <<local, thread, queue, job, hist>>

\* main, "barrierFinished.reset();"
MainResetFinished ==
  /\ pc["main"] = "m_reset_fin"
  /\ Barrier_reset("main", "barrierFinished", "m_reset_fin_wait", "m_reset_start")
  /\ UNCHANGED <<local, thread, queue, job, hist>>

\* main, "barrierStart.reset();", then the second loop over the threads
MainResetStart ==
  /\ pc["main"] = "m_reset_start"
  /\ Barrier_reset("main", "barrierStart", "m_reset_start_wait", "m_start")
  /\ local' = [local EXCEPT !["main"].idx = 1, !["main"].round = 2]
  /\ UNCHANGED <<thread, queue, job, hist>>

\* main woken inside Barrier::reset of either barrier
MainResetWake ==
  /\ pc["main"] \in {"m_reset_fin_wait", "m_reset_start_wait"}
  /\ IF pc["main"] = "m_reset_fin_wait"
     THEN Barrier_reset_wake("main", "barrierFinished", "m_reset_start")
     ELSE Barrier_reset_wake("main", "barrierStart", "m_start")
  /\ UNCHANGED <<local, thread, queue, job, hist>>

\* TestThread: runInternal enters TestThread::run
TestRunInternal(w) == Thread_runInternal(w, "tt_bstart")

\* TestThread::run, "barrierStart.block();"
TestBlockStart(w) ==
  /\ pc[w] = "tt_bstart"
  /\ Barrier_block(w, "barrierStart", "tt_bstart_wait", "tt_loop")
  /\ local' = [local EXCEPT ![w].x = 0]
  /\ UNCHANGED <<thread, queue, job, hist>>

\* TestThread::run, one iteration: "sleepInMilliSeconds(100); interrupt();"
TestLoop(w) ==
  /\ pc[w] = "tt_loop"
  /\ Thread_interrupt(w, "tt_pause")
  /\ local' = [local EXCEPT ![w].x = @ + 1]

\* Thread::interrupt, "m_pauseBarrier->block();"
TestPause(w) ==
  /\ pc[w] = "tt_pause"
  /\ Barrier_block(w, w, "tt_pause_wait",
                   IF local[w].x < NumIterations THEN "tt_loop" ELSE "tt_bfin")
  /\ UNCHANGED <<local, thread, queue, job, hist>>

\* TestThread::run, "barrierFinished.block();", then run returns
TestBlockFinished(w) ==
  /\ pc[w] = "tt_bfin"
  /\ Barrier_block(w, "barrierFinished", "tt_bfin_wait", "ri_end")
  /\ UNCHANGED <<local, thread, queue, job, hist>>

\* TestThread woken inside Barrier::block of the barrier it is parked on
TestWake(w) ==
  /\ pc[w] \in {"tt_bstart_wait", "tt_pause_wait", "tt_bfin_wait"}
  /\ CASE pc[w] = "tt_bstart_wait" -> Barrier_block_wake(w, "barrierStart", "tt_loop")
       [] pc[w] = "tt_pause_wait"  ->
            Barrier_block_wake(w, w, IF local[w].x < NumIterations
                                     THEN "tt_loop" ELSE "tt_bfin")
       [] pc[w] = "tt_bfin_wait"   -> Barrier_block_wake(w, "barrierFinished", "ri_end")
  /\ UNCHANGED <<local, thread, queue, job, hist>>

InitTest ==
  /\ pc = [t \in Threads |-> IF t = "main" THEN "m_start" ELSE "idle"]
  /\ wait = [t \in Threads |-> NoWait]
  /\ local = [t \in Threads |-> Local0]
  /\ barrier = [b \in BarrierNames |->
                  Barrier(CASE b = "barrierStart"    -> Len(WorkerSeq)
                            [] b = "barrierFinished" -> Len(WorkerSeq) + 1
                            [] OTHER                 -> 1)]
  /\ thread = [w \in Workers |-> Thread]
  /\ queue = [q \in Queues |-> multiJobQueue]
  /\ job = [j \in Jobs |-> multiJob]
  /\ hist = Hist0

NextTest ==
  \/ MainStart \/ MainStartSet \/ MainStartSpawn
  \/ MainBlock \/ MainBlockWake
  \/ MainResetFinished \/ MainResetStart \/ MainResetWake
  \/ \E w \in Workers :
       \/ TestRunInternal(w) \/ TestBlockStart(w)
       \/ TestLoop(w) \/ TestPause(w)
       \/ TestBlockFinished(w) \/ TestWake(w)
       \/ Thread_runInternal_end(w)
  \/ \E t \in Threads : SpuriousWake(t)

SpecTest == InitTest /\ [][NextTest]_vars

\* main has called start() on both workers a second time
SecondRoundStarted ==
  /\ local["main"].round = 2
  /\ pc["main"] \in {"m_block", "m_block_wait", "done"}

\* once main has called start() on both workers after the resets, a second OS
\* thread was spawned for each, which executes run() a second time
BothWorkersRunTwice ==
  SecondRoundStarted => \A w \in Workers : hist.launches[w] = 2

\* main parked in its second barrierFinished.block() with no worker left that
\* could arrive there
SecondRoundDeadlock ==
    /\ local["main"].round = 2
    /\ pc["main"] = "m_block_wait"
    /\ \A w \in Workers : pc[w] \in {"idle", "tt_bstart_wait"}
    /\ \A w \in Workers : ~wait[w].notified

\* C6: the two-round barrier program runs both workers a second time and
\* never deadlocks in the second round.
C6_SecondRoundCompletes ==
  BothWorkersRunTwice /\ ~SecondRoundDeadlock


\* ------------------------------------- SpecQueue: one multiJobQueue, shared by
\* producers (add), consumers (nextJob: c1 blocks if empty, c2 does not) and a
\* user thread (removeByName, removeById, remove, multiJob::cancel)
TheQueue == "q1"
blockIfEmptyFlag(t) == t = "c1"
InQueue(j) == j \in Range(queue[TheQueue].m_jobQueue)

\* a producer calls add(job, guaranteeUniqueFlag)
ProducerAdd(t) ==
  /\ t \in Producers /\ pc[t] = "idle"
  /\ hist.adds < MaxAdds
  /\ \E j \in Jobs, unique \in BOOLEAN :
       /\ local' = [local EXCEPT ![t].job = j, ![t].flag = unique]
       /\ hist' = [hist EXCEPT
            !.adds = @ + 1,
            !.addCalls[j] = @ + 1,
            !.waived = IF unique THEN @ ELSE @ \cup {j},
            !.before = IF hist.addCalls[j] = 0
                       THEN @ \cup {<<a, j>> : a \in hist.returned \ {j}} ELSE @]
  /\ pc' = [pc EXCEPT ![t] = "add_check"]
  /\ UNCHANGED <<wait, barrier, thread, queue, job>>

ProducerCheck(t) ==
  /\ t \in Producers /\ pc[t] = "add_check"
  /\ Queue_add_check(t, TheQueue, local[t].job, local[t].flag, "add_ready", "idle")
  /\ hist' = IF pc'[t] = "idle"
             THEN [hist EXCEPT !.returned = @ \cup {local[t].job}] ELSE hist
  /\ local' = IF pc'[t] = "idle" THEN [local EXCEPT ![t] = Local0] ELSE local
  /\ UNCHANGED <<barrier, thread, job>>

ProducerReady(t) ==
  /\ t \in Producers /\ pc[t] = "add_ready"
  /\ Queue_add_ready(t, local[t].job, "add_push")
  /\ UNCHANGED <<wait, local, barrier, thread, queue, hist>>

ProducerPush(t) ==
  /\ t \in Producers /\ pc[t] = "add_push"
  /\ Queue_add_push(t, TheQueue, local[t].job, "add_set")
  /\ UNCHANGED <<wait, local, barrier, thread, job, hist>>

ProducerSet(t) ==
  /\ t \in Producers /\ pc[t] = "add_set"
  /\ Queue_add_set(t, TheQueue, "idle")
  /\ hist' = [hist EXCEPT !.returned = @ \cup {local[t].job}]
  /\ local' = [local EXCEPT ![t] = Local0]
  /\ UNCHANGED <<barrier, thread, job>>

\* what a remove call leaves in the history: the job it took out of the list
Removed(t) ==
  [hist EXCEPT !.userOps = @ + 1,
               !.removed = IF local'[t].job # NoJob THEN @ \cup {local'[t].job} ELSE @]

UserRemoveByName(t) ==
  /\ t \in Users /\ pc[t] = "idle"
  /\ hist.userOps < MaxUserOps
  /\ \E j \in Jobs : Queue_removeByName_erase(t, TheQueue, j, "rbn_empty")
  /\ hist' = Removed(t)
  /\ UNCHANGED <<wait, barrier, thread, job>>

UserRemoveByNameEmpty(t) ==
  /\ t \in Users /\ pc[t] = "rbn_empty"
  /\ Queue_removeByName_empty(t, TheQueue, "rbn_set")
  /\ UNCHANGED <<wait, barrier, thread, queue, job, hist>>

UserRemoveByNameSet(t) ==
  /\ t \in Users /\ pc[t] = "rbn_set"
  /\ Queue_removeByName_set(t, TheQueue, "idle")
  /\ local' = [local EXCEPT ![t] = Local0]
  /\ UNCHANGED <<barrier, thread, job, hist>>

UserRemoveById(t) ==
  /\ t \in Users /\ pc[t] = "idle"
  /\ hist.userOps < MaxUserOps
  /\ \E j \in Jobs : Queue_removeById(t, TheQueue, j, "idle")
  /\ hist' = Removed(t)
  /\ UNCHANGED <<barrier, thread, job>>

UserRemove(t) ==
  /\ t \in Users /\ pc[t] = "idle"
  /\ hist.userOps < MaxUserOps
  /\ \E j \in Jobs : Queue_remove(t, TheQueue, j, "idle")
  /\ hist' = Removed(t)
  /\ UNCHANGED <<wait, barrier, thread, job>>

\* the user cancels a job: multiJob::cancel
UserCancel(t) ==
  /\ t \in Users /\ pc[t] = "idle"
  /\ hist.userOps < MaxUserOps
  /\ \E j \in Jobs :
       /\ job' = [job EXCEPT ![j].m_state = cancel(@)]
       /\ hist' = [hist EXCEPT !.userOps = @ + 1, !.canceled = @ \cup {j}]
  /\ UNCHANGED <<pc, wait, local, barrier, thread, queue>>

ConsumerNextJob(t) ==
  /\ t \in Consumers /\ pc[t] = "idle"
  /\ Queue_nextJob_empty(t, TheQueue, blockIfEmptyFlag(t), "nj_block", "nj_pop")
  /\ UNCHANGED <<wait, local, barrier, thread, queue, job, hist>>

ConsumerBlock(t) ==
  /\ t \in Consumers /\ pc[t] = "nj_block"
  /\ Block_block(t, TheQueue, "nj_wait", "nj_pop")
  /\ UNCHANGED <<local, barrier, thread, job, hist>>

ConsumerWake(t) ==
  /\ t \in Consumers /\ pc[t] = "nj_wait"
  /\ Block_block_wake(t, TheQueue, "nj_pop")
  /\ UNCHANGED <<local, barrier, thread, job, hist>>

ConsumerPop(t) ==
  /\ t \in Consumers /\ pc[t] = "nj_pop"
  /\ Queue_nextJob_pop(t, TheQueue, "nj_ret")
  /\ hist' = IF local'[t].job # NoJob
             THEN [hist EXCEPT !.popped = Append(@, local'[t].job)] ELSE hist
  /\ UNCHANGED <<barrier, thread>>

\* the consumer drops the job it got and is ready for its next call
ConsumerDone(t) ==
  /\ t \in Consumers /\ pc[t] = "nj_ret"
  /\ pc' = [pc EXCEPT ![t] = "idle"]
  /\ local' = [local EXCEPT ![t] = Local0]
  /\ UNCHANGED <<wait, barrier, thread, queue, job, hist>>

InitQueue ==
  /\ pc = [t \in Threads |-> "idle"]
  /\ wait = [t \in Threads |-> NoWait]
  /\ local = [t \in Threads |-> Local0]
  /\ barrier = [b \in BarrierNames |-> Barrier(1)]
  /\ thread = [w \in Workers |-> Thread]
  /\ queue = [q \in Queues |-> multiJobQueue]
  /\ job = [j \in Jobs |-> multiJob]
  /\ hist = Hist0

ProducerStep(t) ==
  ProducerCheck(t) \/ ProducerReady(t) \/ ProducerPush(t) \/ ProducerSet(t)
UserStep(t) == UserRemoveByNameEmpty(t) \/ UserRemoveByNameSet(t)
ConsumerStep(t) ==
  ConsumerBlock(t) \/ ConsumerWake(t) \/ ConsumerPop(t) \/ ConsumerDone(t)

NextQueue ==
  \/ \E t \in Producers : ProducerAdd(t) \/ ProducerStep(t)
  \/ \E t \in Users : \/ UserRemoveByName(t) \/ UserRemoveById(t)
                      \/ UserRemove(t) \/ UserCancel(t) \/ UserStep(t)
  \/ \E t \in Consumers : ConsumerNextJob(t) \/ ConsumerStep(t) \/ SpuriousWake(t)

SpecQueue == InitQueue /\ [][NextQueue]_vars

\* every call that has begun goes on: the scheduler runs every runnable thread;
\* no thread has to begin a new call
FairQueue ==
  /\ SpecQueue
  /\ \A t \in Producers : WF_vars(ProducerStep(t))
  /\ \A t \in Users : WF_vars(UserStep(t))
  /\ \A t \in Consumers : WF_vars(ConsumerStep(t))

\* the consumer that does not block keeps polling: its thread is always runnable
FairPoll == SpecQueue /\ WF_vars(ConsumerNextJob("c2") \/ ConsumerStep("c2"))

ParkedInNextJob(t) == pc[t] = "nj_wait"

\* C2: no lost wakeup on the queue: once add(j) has returned and j is still in
\* the queue, no consumer stays parked forever inside nextJob(true), whatever
\* add, nextJob, removeByName, removeById and remove calls run beside it.
C2_NoLostWakeup ==
  \A j \in Jobs : \A t \in Consumers :
    (j \in hist.returned /\ InQueue(j) /\ ParkedInNextJob(t))
      ~> (~ParkedInNextJob(t) \/ ~InQueue(j))

Untouched(j) == j \notin hist.removed \cup hist.canceled

FifoOrder ==
  \A i \in 1..Len(hist.popped) : \A a \in Jobs :
    (<<a, hist.popped[i]>> \in hist.before /\ Untouched(a) /\ Untouched(hist.popped[i]))
      => \E k \in 1..(i - 1) : hist.popped[k] = a

\* C3: the queue is FIFO: when add(a) returned before add(b) was called and
\* neither job is removed or canceled, no nextJob returns b before a nextJob has
\* returned a, and polling with nextJob(false) returns every added job.
C3_Fifo ==
  /\ []FifoOrder
  /\ \A j \in Jobs :
       (j \in hist.returned) ~> (j \in Range(hist.popped) \/ ~Untouched(j))

C3_Witness ==
  /\ Len(hist.popped) = 2
  /\ <<hist.popped[1], hist.popped[2]>> \in hist.before
  /\ hist.removed = {} /\ hist.canceled = {}
  /\ pc["c2"] = "nj_ret" /\ local["c2"].job = hist.popped[2]

\* C4: a job that was only ever inserted with guaranteeUniqueFlag = true is in
\* the queue at most once, also when several producers add it concurrently.
C4_UniqueOnce ==
  \A j \in Jobs :
    j \notin hist.waived => Count(queue[TheQueue].m_jobQueue, j) <= 1

\* ------------------------------------------------------ multiJobThreadQueue
NoThread == "none"

\* a multiJobThreadQueue is a multi::Thread with m_doneFlag, m_threadMutex (its
\* owner), m_jobQueue and m_currentJob
multiJobThreadQueue(jqueue) ==
  Thread @@ [m_doneFlag |-> FALSE, m_threadMutex |-> NoThread,
             m_jobQueue |-> jqueue, m_currentJob |-> NoJob]

\* std::lock_guard<std::mutex> lock(m_threadMutex) can be taken
MutexFree(w) == thread[w].m_threadMutex = NoThread

\* Thread::isPaused
isPaused(w) == barrier[w].m_blockedCount > 0

\* multiJobQueue::releaseBlock on a queue handle that may be null
releaseBlock(qs, q) == IF q # NoQueue THEN Block_release(qs, q) ELSE qs

\* multiJobThreadQueue::hasJobsToProcess, evaluated under m_threadMutex:
\* "(!m_jobQueue->isEmpty()||m_currentJob)"
hasJobsToProcess(w) ==
  \/ queue[thread[w].m_jobQueue].m_jobQueue # <<>>
  \/ thread[w].m_currentJob # NoJob

\* run(), "interrupt();": Thread::interrupt, the test of m_interrupt
ThreadQueue_run_interrupt(w) ==
  /\ pc[w] = "interrupt"
  /\ Thread_interrupt(w, "pause_block")
  /\ UNCHANGED local

\* run(), "interrupt();": Thread::interrupt, "m_pauseBarrier->block();"
ThreadQueue_run_pauseBlock(w) ==
  /\ pc[w] = "pause_block"
  /\ Barrier_block(w, w, "pause_wait", "valid")
  /\ UNCHANGED <<local, thread, queue, job, hist>>

ThreadQueue_run_pauseWake(w) ==
  /\ pc[w] = "pause_wait"
  /\ Barrier_block_wake(w, w, "valid")
  /\ UNCHANGED <<local, thread, queue, job, hist>>

\* run(), "validQueue = isValidQueue();"
ThreadQueue_isValidQueue(w) ==
  /\ pc[w] = "valid" /\ MutexFree(w)
  /\ local' = [local EXCEPT ![w].flag = (thread[w].m_jobQueue # NoQueue)]
  /\ pc' = [pc EXCEPT ![w] = "nextjob"]
  /\ UNCHANGED <<wait, barrier, thread, queue, job, hist>>

\* a nextJob that does not look at m_doneFlag
ThreadQueue_nextJob_anyway(w) ==
  /\ pc[w] = "nextjob" /\ MutexFree(w)
  /\ LET checkIfValid == thread[w].m_jobQueue # NoQueue IN
       /\ local' = [local EXCEPT
            ![w].queue = IF checkIfValid THEN thread[w].m_jobQueue ELSE NoQueue,
            ![w].job = NoJob]
       /\ pc' = [pc EXCEPT ![w] = IF checkIfValid THEN "nj_empty" ELSE "gotjob"]
  /\ UNCHANGED <<wait, barrier, thread, queue, job, hist>>

\* multiJobThreadQueue::nextJob, the locked copy of m_jobQueue and of m_doneFlag
ThreadQueue_nextJob(w) ==
  /\ pc[w] = "nextjob" /\ MutexFree(w)
  /\ LET checkIfValid == ~thread[w].m_doneFlag /\ thread[w].m_jobQueue # NoQueue IN
       /\ local' = [local EXCEPT
            ![w].queue = IF checkIfValid THEN thread[w].m_jobQueue ELSE NoQueue,
            ![w].job = NoJob]
       /\ pc' = [pc EXCEPT ![w] = IF checkIfValid THEN "nj_empty" ELSE "gotjob"]
  /\ UNCHANGED <<wait, barrier, thread, queue, job, hist>>

\* multiJobThreadQueue::nextJob, "jobQueue->nextJob(true)"
ThreadQueue_nextJob_empty(w) ==
  /\ pc[w] = "nj_empty"
  /\ Queue_nextJob_empty(w, local[w].queue, TRUE, "nj_block", "nj_pop")
  /\ UNCHANGED <<wait, local, barrier, thread, queue, job, hist>>

ThreadQueue_nextJob_block(w) ==
  /\ pc[w] = "nj_block"
  /\ Block_block(w, local[w].queue, "nj_wait", "nj_pop")
  /\ UNCHANGED <<local, barrier, thread, job, hist>>

ThreadQueue_nextJob_wake(w) ==
  /\ pc[w] = "nj_wait"
  /\ Block_block_wake(w, local[w].queue, "nj_pop")
  /\ UNCHANGED <<local, barrier, thread, job, hist>>

ThreadQueue_nextJob_pop(w) ==
  /\ pc[w] = "nj_pop"
  /\ Queue_nextJob_pop(w, local[w].queue, "gotjob")
  /\ UNCHANGED <<barrier, thread, hist>>

\* run(), "if (job&&!m_doneFlag)": m_doneFlag is read without m_threadMutex
ThreadQueue_run_gotJob(w) ==
  /\ pc[w] = "gotjob"
  /\ pc' = [pc EXCEPT ![w] = IF local[w].job # NoJob /\ ~thread[w].m_doneFlag
                             THEN "setcur" ELSE "looptest"]
  /\ local' = [local EXCEPT ![w].queue = NoQueue]
  /\ UNCHANGED <<wait, barrier, thread, queue, job, hist>>

\* run(), "m_currentJob = job;" under m_threadMutex
ThreadQueue_run_setCurrentJob(w) ==
  /\ pc[w] = "setcur" /\ MutexFree(w)
  /\ thread' = [thread EXCEPT ![w].m_currentJob = local[w].job]
  /\ pc' = [pc EXCEPT ![w] = "isready"]
  /\ UNCHANGED <<wait, local, barrier, queue, job, hist>>

\* run(), "if(job->isReady())"
ThreadQueue_run_isReady(w) ==
  /\ pc[w] = "isready"
  /\ pc' = [pc EXCEPT ![w] = IF isReady(local[w].job) THEN "start" ELSE "clearcur"]
  /\ UNCHANGED <<wait, local, barrier, thread, queue, job, hist>>

\* multiJob::start, "setState(multiJob_RUNNING);", and run() is entered
multiJob_start(w) ==
  /\ pc[w] = "start"
  /\ job' = [job EXCEPT ![local[w].job].m_state = setState(@, multiJob_RUNNING, TRUE)]
  /\ hist' = [hist EXCEPT !.started = @ \cup {local[w].job}, !.inBody = @ \cup {w}]
  /\ pc' = [pc EXCEPT ![w] = "body"]
  /\ UNCHANGED <<wait, local, barrier, thread, queue>>

\* multiJob::start, "run();": the body of the job comes to its end
multiJob_run(w) ==
  /\ pc[w] = "body"
  /\ hist' = [hist EXCEPT !.inBody = @ \ {w}]
  /\ pc' = [pc EXCEPT ![w] = "fin"]
  /\ UNCHANGED <<wait, local, barrier, thread, queue, job>>

\* multiJob::start, "if(!(state() & multiJob_CANCEL)) setState(multiJob_FINISHED);"
multiJob_start_finished(w) ==
  /\ pc[w] = "fin"
  /\ job' = [job EXCEPT ![local[w].job].m_state =
               IF @ \cap multiJob_CANCEL = {}
               THEN setState(@, multiJob_FINISHED, TRUE) ELSE @]
  /\ pc' = [pc EXCEPT ![w] = "clearcur"]
  /\ UNCHANGED <<wait, local, barrier, thread, queue, hist>>

\* run(), "m_currentJob = 0;" under m_threadMutex, and "job.reset();"
ThreadQueue_run_clearCurrentJob(w) ==
  /\ pc[w] = "clearcur" /\ MutexFree(w)
  /\ thread' = [thread EXCEPT ![w].m_currentJob = NoJob]
  /\ local' = [local EXCEPT ![w].job = NoJob]
  /\ pc' = [pc EXCEPT ![w] = "looptest"]
  /\ UNCHANGED <<wait, barrier, queue, job, hist>>

\* run(), "while (!m_doneFlag&&validQueue)": m_doneFlag is read without m_threadMutex
ThreadQueue_run_while(w) ==
  /\ pc[w] = "looptest"
  /\ pc' = [pc EXCEPT ![w] = IF ~thread[w].m_doneFlag /\ local[w].flag
                             THEN "interrupt" ELSE "exit_clear"]
  /\ UNCHANGED <<wait, local, barrier, thread, queue, job, hist>>

\* run(), after the loop: "m_currentJob = 0;" under m_threadMutex
ThreadQueue_run_exitClear(w) ==
  /\ pc[w] = "exit_clear" /\ MutexFree(w)
  /\ thread' = [thread EXCEPT ![w].m_currentJob = NoJob]
  /\ pc' = [pc EXCEPT ![w] = "exit_cancel"]
  /\ UNCHANGED <<wait, local, barrier, queue, job, hist>>

\* run(), after the loop: "if(job&&m_doneFlag&&job->isReady()) job->cancel();"
ThreadQueue_run_exitCancel(w) ==
  /\ pc[w] = "exit_cancel"
  /\ job' = IF local[w].job # NoJob /\ thread[w].m_doneFlag /\ isReady(local[w].job)
            THEN [job EXCEPT ![local[w].job].m_state = cancel(@)] ELSE job
  /\ local' = [local EXCEPT ![w] = Local0]
  /\ pc' = [pc EXCEPT ![w] = "ri_end"]
  /\ UNCHANGED <<wait, barrier, thread, queue, hist>>

\* multiJobThreadQueue::cancel, "if( isRunning() )"
ThreadQueue_cancel_check(c, w, lockPc, retPc) ==
  /\ pc' = [pc EXCEPT ![c] = IF isRunning(w) THEN lockPc ELSE retPc]
  /\ UNCHANGED <<wait, barrier, thread, queue, job>>

\* multiJobThreadQueue::cancel that also marks the thread as not running
ThreadQueue_cancel_lock_detach(c, w, spinPc) ==
  /\ MutexFree(w)
  /\ thread' = [thread EXCEPT ![w].m_doneFlag = TRUE, ![w].m_running = FALSE]
  /\ job' = IF thread[w].m_currentJob # NoJob
            THEN [job EXCEPT ![thread[w].m_currentJob].m_state = cancel(@)] ELSE job
  /\ queue' = releaseBlock(queue, thread[w].m_jobQueue)
  /\ wait' = NotifyAll(wait, ConditionVariable(thread[w].m_jobQueue))
  /\ pc' = [pc EXCEPT ![c] = spinPc]
  /\ UNCHANGED barrier

\* multiJobThreadQueue::cancel, the first section under m_threadMutex: m_doneFlag,
\* m_currentJob->cancel(), m_jobQueue->releaseBlock()
ThreadQueue_cancel_lock(c, w, spinPc) ==
  /\ MutexFree(w)
  /\ thread' = [thread EXCEPT ![w].m_doneFlag = TRUE]
  /\ job' = IF thread[w].m_currentJob # NoJob
            THEN [job EXCEPT ![thread[w].m_currentJob].m_state = cancel(@)] ELSE job
  /\ queue' = releaseBlock(queue, thread[w].m_jobQueue)
  /\ wait' = NotifyAll(wait, ConditionVariable(thread[w].m_jobQueue))
  /\ pc' = [pc EXCEPT ![c] = spinPc]
  /\ UNCHANGED barrier

\* multiJobThreadQueue::cancel with a wait loop that does not release the block
ThreadQueue_cancel_spin_noRelease(c, w, retPc) ==
  /\ pc' = [pc EXCEPT ![c] = IF isRunning(w) THEN pc[c] ELSE retPc]
  /\ UNCHANGED <<wait, barrier, thread, queue, job>>

\* multiJobThreadQueue::cancel, "while(isRunning())": one pass, which releases
\* the block of m_jobQueue under m_threadMutex
ThreadQueue_cancel_spin(c, w, retPc) ==
  IF isRunning(w)
  THEN /\ MutexFree(w)
       /\ queue' = releaseBlock(queue, thread[w].m_jobQueue)
       /\ wait' = NotifyAll(wait, ConditionVariable(thread[w].m_jobQueue))
       /\ UNCHANGED <<pc, barrier, thread, job>>
  ELSE /\ pc' = [pc EXCEPT ![c] = retPc]
       /\ UNCHANGED <<wait, barrier, thread, queue, job>>

\* Thread::waitForCompletion: "if(m_thread)", the predicate !isRunning() under
\* m_runningMutex, the wait, and the re-check of the woken caller.  runInternal
\* writes m_running without m_runningMutex, so it can run between the
\* predicate and the wait.
Thread_waitForCompletion(c, w, predPc, parkPc, waitPc, retPc) ==
  CASE pc[c] = predPc ->
         /\ pc' = [pc EXCEPT ![c] = IF thread[w].m_thread /\ isRunning(w)
                                    THEN parkPc ELSE retPc]
         /\ wait' = wait
    [] pc[c] = parkPc ->
         /\ wait' = Park(wait, c, RunningCondition(w))
         /\ pc' = [pc EXCEPT ![c] = waitPc]
    [] pc[c] = waitPc ->
         /\ wait[c].notified
         /\ IF ~isRunning(w)
            THEN /\ wait' = Unpark(wait, c)
                 /\ pc' = [pc EXCEPT ![c] = retPc]
            ELSE /\ wait' = [wait EXCEPT ![c].notified = FALSE]
                 /\ pc' = pc

\* -------------------------------------------------- multiJobMultiThreadQueue
\* SpecPool: a pool of Len(WorkerSeq) workers on one queue, a producer, and the
\* main thread, which may call cancel() and then waitForCompletion()
PoolProducers == {"p1"}

\* the producer calls add(job, guaranteeUniqueFlag) on the queue of the pool
MultiThreadQueue_add(t) ==
  /\ t \in PoolProducers /\ pc[t] = "idle"
  /\ hist.adds < MaxPoolAdds
  /\ \E j \in Jobs, unique \in BOOLEAN :
       local' = [local EXCEPT ![t].job = j, ![t].flag = unique]
  /\ hist' = [hist EXCEPT !.adds = @ + 1]
  /\ pc' = [pc EXCEPT ![t] = "add_check"]
  /\ UNCHANGED <<wait, barrier, thread, queue, job>>

TheWorker(t) == WorkerSeq[local[t].idx]
LastWorker(t) == local[t].idx = Len(WorkerSeq)
NextWorker(t) == [local EXCEPT ![t].idx = IF LastWorker(t) THEN 1 ELSE @ + 1]

\* multiJobMultiThreadQueue::cancel is called
MultiThreadQueue_cancel(t) ==
  /\ pc[t] = "idle"
  /\ pc' = [pc EXCEPT ![t] = "c_check"]
  /\ UNCHANGED <<wait, local, barrier, thread, queue, job, hist>>

\* "for(auto thread:m_threadQueueList) thread->cancel();"
MultiThreadQueue_cancel_check(t) ==
  /\ pc[t] = "c_check"
  /\ ThreadQueue_cancel_check(t, TheWorker(t), "c_lock",
                              IF LastWorker(t) THEN "wfc" ELSE "c_check")
  /\ local' = IF isRunning(TheWorker(t)) THEN local ELSE NextWorker(t)
  /\ hist' = IF isRunning(TheWorker(t)) THEN hist
             ELSE [hist EXCEPT !.cancelReturned = @ \cup {TheWorker(t)}]

MultiThreadQueue_cancel_lock(t) ==
  /\ pc[t] = "c_lock"
  /\ ThreadQueue_cancel_lock(t, TheWorker(t), "c_spin")
  /\ UNCHANGED <<local, hist>>

MultiThreadQueue_cancel_spin(t) ==
  /\ pc[t] = "c_spin"
  /\ ThreadQueue_cancel_spin(t, TheWorker(t), IF LastWorker(t) THEN "wfc" ELSE "c_check")
  /\ local' = IF isRunning(TheWorker(t)) THEN local ELSE NextWorker(t)
  /\ hist' = IF isRunning(TheWorker(t)) THEN hist
             ELSE [hist EXCEPT !.cancelReturned = @ \cup {TheWorker(t)}]

\* "for(auto thread:m_threadQueueList) thread->waitForCompletion();"
MultiThreadQueue_waitForCompletion(t) ==
  /\ pc[t] \in {"wfc", "wfc_park", "wfc_wait"}
  /\ Thread_waitForCompletion(t, TheWorker(t), "wfc", "wfc_park", "wfc_wait",
                              IF LastWorker(t) THEN "done" ELSE "wfc")
  /\ local' = IF pc'[t] \in {"wfc_park", "wfc_wait"} THEN local ELSE NextWorker(t)
  /\ UNCHANGED <<barrier, thread, queue, job, hist>>

\* every step of a worker's loop but the wake from its pause barrier
RunStep(w) ==
  \/ Thread_runInternal(w, "interrupt")
  \/ ThreadQueue_run_interrupt(w)
  \/ ThreadQueue_run_pauseBlock(w)
  \/ ThreadQueue_isValidQueue(w)
  \/ ThreadQueue_nextJob(w)
  \/ ThreadQueue_nextJob_empty(w)
  \/ ThreadQueue_nextJob_block(w)
  \/ ThreadQueue_nextJob_wake(w)
  \/ ThreadQueue_nextJob_pop(w)
  \/ ThreadQueue_run_gotJob(w)
  \/ ThreadQueue_run_setCurrentJob(w)
  \/ ThreadQueue_run_isReady(w)
  \/ multiJob_start(w)
  \/ multiJob_run(w)
  \/ multiJob_start_finished(w)
  \/ ThreadQueue_run_clearCurrentJob(w)
  \/ ThreadQueue_run_while(w)
  \/ ThreadQueue_run_exitClear(w)
  \/ ThreadQueue_run_exitCancel(w)
  \/ Thread_runInternal_end(w)

MainStep(t) ==
  \/ MultiThreadQueue_cancel_check(t)
  \/ MultiThreadQueue_cancel_lock(t)
  \/ MultiThreadQueue_cancel_spin(t)
  \/ MultiThreadQueue_waitForCompletion(t)

\* the state the constructor leaves: setNumberOfThreads has bound every worker to
\* the queue and started it
InitPool ==
  /\ pc = [t \in Threads |-> IF t \in Workers THEN "ri_start" ELSE "idle"]
  /\ wait = [t \in Threads |-> NoWait]
  /\ local = [t \in Threads |-> Local0]
  /\ barrier = [b \in BarrierNames |-> Barrier(1)]
  /\ thread = [w \in Workers |->
                 [multiJobThreadQueue(TheQueue) EXCEPT !.m_running = TRUE,
                                                       !.m_thread = TRUE]]
  /\ queue = [q \in Queues |-> multiJobQueue]
  /\ job = [j \in Jobs |-> multiJob]
  /\ hist = Hist0

NextPool ==
  \/ \E t \in PoolProducers : MultiThreadQueue_add(t) \/ ProducerStep(t)
  \/ \E w \in Workers : RunStep(w)
  \/ MultiThreadQueue_cancel("main")
  \/ MainStep("main")

SpecPool == InitPool /\ [][NextPool]_vars

\* every thread that can run does run; nobody has to call add() or cancel()
FairPool ==
  /\ SpecPool
  /\ \A w \in Workers : WF_vars(RunStep(w))
  /\ \A t \in PoolProducers : WF_vars(ProducerStep(t))
  /\ WF_vars(MainStep("main"))

\* the wake of a worker from a block that is released again and again: the
\* worker does get to see m_release true
WakeReleased(w) ==
  /\ queue[TheQueue].m_block.m_release
  /\ ThreadQueue_nextJob_wake(w)

FairCancel == FairPool /\ \A w \in Workers : SF_vars(WakeReleased(w))

Processed(j) == ~InQueue(j) /\ j \in hist.started /\ isFinished(j)
CancelCalled == pc["main"] # "idle"

\* C1: with a pool of workers on one queue, job bodies that terminate and no
\* cancel or remove call, every job added to the queue is eventually dequeued by
\* a worker, started, and FINISHED.
C1_EveryJobFinishes ==
  \A j \in Jobs :
    (j \in hist.returned /\ ~CancelCalled) ~> (Processed(j) \/ CancelCalled)

C1_Witness ==
  /\ ~CancelCalled
  /\ \E j \in Jobs : j \in hist.returned /\ Processed(j)
  /\ \A w \in Workers : pc[w] = "nj_wait"

InCancelOf(i) ==
  pc["main"] \in {"c_check", "c_lock", "c_spin"} /\ local["main"].idx = i

MultiThreadQueue_hasJobsToProcess ==
  \E i \in 1..Len(WorkerSeq) : hasJobsToProcess(WorkerSeq[i])

\* C11: from the return of add(j) until j is finished, a call of the pool's
\* hasJobsToProcess() never returns false.  The call needs every worker's
\* m_threadMutex, so it is evaluated in the states where they are all free;
\* runs in which cancel() was called are left out.
C11_HasJobsUntilFinished ==
  \A j \in Jobs :
    (j \in hist.returned /\ ~isFinished(j) /\ ~CancelCalled
       /\ \A w \in Workers : MutexFree(w))
    => MultiThreadQueue_hasJobsToProcess

\* C13: after cancel() on a worker its interrupt flag is set, so that the
\* worker's next interrupt() unwinds run().  Stated for the workers of the
\* pool, which are queue-bound, once their cancel() has returned.
C13_CancelSetsInterrupt ==
  \A w \in hist.cancelReturned : isInterruptable(w)

\* ------------------------------------- SpecSwap: multiJobThreadQueue::setJobQueue
\* one running worker on queue q1, a producer of q1, and a user thread that
\* calls setJobQueue on the worker
SwapWorker == "w1"

\* setJobQueue is called: m_threadMutex is taken, "if (m_jobQueue == jqueue) return;"
ThreadQueue_setJobQueue(u) ==
  /\ u \in Users /\ pc[u] = "idle"
  /\ hist.userOps < MaxSwaps
  /\ MutexFree(SwapWorker)
  /\ \E jqueue \in Queues \cup {NoQueue} :
       /\ local' = [local EXCEPT ![u].queue = jqueue]
       /\ pc' = [pc EXCEPT ![u] = IF thread[SwapWorker].m_jobQueue = jqueue
                                  THEN "sjq_unlock" ELSE "sjq_pause"]
  /\ thread' = [thread EXCEPT ![SwapWorker].m_threadMutex = u]
  /\ hist' = [hist EXCEPT !.userOps = @ + 1]
  /\ UNCHANGED <<wait, barrier, queue, job>>

\* "pause();": Thread::pause, m_pauseBarrier->reset(2), the reset()
ThreadQueue_setJobQueue_pause(u) ==
  /\ pc[u] \in {"sjq_pause", "sjq_pause_wait"}
  /\ IF pc[u] = "sjq_pause"
     THEN Barrier_reset(u, SwapWorker, "sjq_pause_wait", "sjq_pause_max")
     ELSE Barrier_reset_wake(u, SwapWorker, "sjq_pause_max")
  /\ UNCHANGED <<local, thread, queue, job, hist>>

\* "pause();": Thread::pause, m_pauseBarrier->reset(2), the new m_maxCount
ThreadQueue_setJobQueue_pauseMax(u) ==
  /\ pc[u] = "sjq_pause_max"
  /\ Barrier_reset_maxCount(u, SwapWorker, PauseMaxCount, "sjq_spin")
  /\ UNCHANGED <<wait, local, thread, queue, job, hist>>

\* "while(isRunning()&&!isPaused()) m_jobQueue->releaseBlock();": one pass, and
\* after the loop "m_jobQueue = jqueue;".  With m_jobQueue null the call in
\* the loop dereferences a null pointer: the process dies.
ThreadQueue_setJobQueue_spin(u) ==
  /\ pc[u] = "sjq_spin"
  /\ IF isRunning(SwapWorker) /\ ~isPaused(SwapWorker)
     THEN IF thread[SwapWorker].m_jobQueue = NoQueue
          THEN /\ pc' = [pc EXCEPT ![u] = "abort"]
               /\ UNCHANGED <<wait, thread, queue>>
          ELSE /\ queue' = releaseBlock(queue, thread[SwapWorker].m_jobQueue)
               /\ wait' = NotifyAll(wait, ConditionVariable(thread[SwapWorker].m_jobQueue))
               /\ UNCHANGED <<pc, thread>>
     ELSE /\ thread' = [thread EXCEPT ![SwapWorker].m_jobQueue = local[u].queue]
          /\ pc' = [pc EXCEPT ![u] = "sjq_resume"]
          /\ UNCHANGED <<wait, queue>>
  /\ UNCHANGED <<local, barrier, job, hist>>

\* "resume();": Thread::resume, m_pauseBarrier->reset(1), the reset()
ThreadQueue_setJobQueue_resume(u) ==
  /\ pc[u] \in {"sjq_resume", "sjq_resume_wait"}
  /\ IF pc[u] = "sjq_resume"
     THEN Barrier_reset(u, SwapWorker, "sjq_resume_wait", "sjq_resume_max")
     ELSE Barrier_reset_wake(u, SwapWorker, "sjq_resume_max")
  /\ UNCHANGED <<local, thread, queue, job, hist>>

\* "resume();": Thread::resume, m_pauseBarrier->reset(1), the new m_maxCount
ThreadQueue_setJobQueue_resumeMax(u) ==
  /\ pc[u] = "sjq_resume_max"
  /\ Barrier_reset_maxCount(u, SwapWorker, 1, "sjq_start")
  /\ UNCHANGED <<wait, local, thread, queue, job, hist>>

\* "if(m_jobQueue) startThreadForQueue();": "if(m_jobQueue) if(!isRunning()) start();"
ThreadQueue_startThreadForQueue(u) ==
  /\ pc[u] = "sjq_start"
  /\ pc' = [pc EXCEPT ![u] =
              IF thread[SwapWorker].m_jobQueue # NoQueue /\ ~isRunning(SwapWorker)
              THEN "sjq_start_check" ELSE "sjq_unlock"]
  /\ UNCHANGED <<wait, local, barrier, thread, queue, job, hist>>

ThreadQueue_start_check(u) ==
  /\ pc[u] = "sjq_start_check"
  /\ Thread_start_check(u, SwapWorker, "sjq_start_set", "sjq_unlock")
  /\ UNCHANGED local

ThreadQueue_start_set(u) ==
  /\ pc[u] = "sjq_start_set"
  /\ Thread_start_set(u, SwapWorker, "sjq_start_spawn")
  /\ UNCHANGED local

ThreadQueue_start_spawn(u) ==
  /\ pc[u] = "sjq_start_spawn"
  /\ Thread_start_spawn(u, SwapWorker, "sjq_unlock")
  /\ UNCHANGED local

\* setJobQueue returns: the lock_guard leaves m_threadMutex
ThreadQueue_setJobQueue_return(u) ==
  /\ pc[u] = "sjq_unlock"
  /\ thread' = [thread EXCEPT ![SwapWorker].m_threadMutex = NoThread]
  /\ local' = [local EXCEPT ![u] = Local0]
  /\ pc' = [pc EXCEPT ![u] = "idle"]
  /\ UNCHANGED <<wait, barrier, queue, job, hist>>

SetJobQueueStep(u) ==
  \/ ThreadQueue_setJobQueue_pause(u)
  \/ ThreadQueue_setJobQueue_pauseMax(u)
  \/ ThreadQueue_setJobQueue_spin(u)
  \/ ThreadQueue_setJobQueue_resume(u)
  \/ ThreadQueue_setJobQueue_resumeMax(u)
  \/ ThreadQueue_startThreadForQueue(u)
  \/ ThreadQueue_start_check(u)
  \/ ThreadQueue_start_set(u)
  \/ ThreadQueue_start_spawn(u)
  \/ ThreadQueue_setJobQueue_return(u)

\* the worker has been constructed on q1 and started
InitSwap ==
  /\ pc = [t \in Threads |-> IF t = SwapWorker THEN "ri_start" ELSE "idle"]
  /\ wait = [t \in Threads |-> NoWait]
  /\ local = [t \in Threads |-> Local0]
  /\ barrier = [b \in BarrierNames |-> Barrier(1)]
  /\ thread = [w \in Workers |->
                 IF w = SwapWorker
                 THEN [multiJobThreadQueue(TheQueue) EXCEPT !.m_running = TRUE,
                                                            !.m_thread = TRUE]
                 ELSE multiJobThreadQueue(NoQueue)]
  /\ queue = [q \in Queues |-> multiJobQueue]
  /\ job = [j \in Jobs |-> multiJob]
  /\ hist = Hist0

NextSwap ==
  \/ \E t \in PoolProducers : MultiThreadQueue_add(t) \/ ProducerStep(t)
  \/ RunStep(SwapWorker)
  \/ ThreadQueue_run_pauseWake(SwapWorker)
  \/ \E u \in Users : ThreadQueue_setJobQueue(u) \/ SetJobQueueStep(u)
  \/ \E t \in Threads : SpuriousWake(t)

SpecSwap == InitSwap /\ [][NextSwap]_vars

\* every thread that can run does run; nobody has to call add() or setJobQueue()
FairSwap ==
  /\ SpecSwap
  /\ WF_vars(RunStep(SwapWorker) \/ ThreadQueue_run_pauseWake(SwapWorker))
  /\ \A t \in PoolProducers : WF_vars(ProducerStep(t))
  /\ \A u \in Users : WF_vars(SetJobQueueStep(u))

InSetJobQueue(u) == pc[u] \notin {"idle"}

\* C9: setJobQueue called on a running worker eventually returns, whatever the
\* worker is doing: the caller and the loop of the worker never deadlock on
\* m_threadMutex and the pause barrier.
C9_SetJobQueueReturns ==
  \A u \in Users : InSetJobQueue(u) ~> ~InSetJobQueue(u)

ParkedAtPause(w) == pc[w] = "pause_wait"

\* C10: setJobQueue changes m_jobQueue only while the worker is not running or
\* is parked at its pause checkpoint.
C10_SwapOnlyWhenParked ==
  [][thread'[SwapWorker].m_jobQueue # thread[SwapWorker].m_jobQueue
       => (~isRunning(SwapWorker) \/ ParkedAtPause(SwapWorker))]_vars

\* ----------------------- SpecPause: Thread::pause, resume, cancel, waitForCompletion
\* one running queue-bound worker (SwapWorker) on queue q1, a producer of q1, a
\* controlling thread that may call pause(), then resume(), then cancel() on
\* the worker, each at most once and each after the one before has returned,
\* and the main thread, which may call waitForCompletion() on the worker

\* Thread::pause, "m_pauseBarrier->reset(2);": the call, Barrier::reset(), its
\* wait for the parked threads, and "m_maxCount = maxCount;"
Thread_pause(u) ==
  /\ CASE pc[u] = "idle" ->
            /\ hist.called = {}
            /\ pc' = [pc EXCEPT ![u] = "p_reset"]
            /\ hist' = [hist EXCEPT !.called = @ \cup {"pause"}]
            /\ UNCHANGED <<wait, barrier>>
       [] pc[u] = "p_reset" ->
            /\ Barrier_reset(u, SwapWorker, "p_wait", "p_max")
            /\ UNCHANGED hist
       [] pc[u] = "p_wait" ->
            /\ Barrier_reset_wake(u, SwapWorker, "p_max")
            /\ UNCHANGED hist
       [] pc[u] = "p_max" ->
            /\ Barrier_reset_maxCount(u, SwapWorker, PauseMaxCount, "idle")
            /\ hist' = [hist EXCEPT !.done = @ \cup {"pause"}]
            /\ UNCHANGED wait
       [] OTHER -> FALSE
  /\ UNCHANGED <<local, thread, queue, job>>

\* Thread::resume, "m_pauseBarrier->reset(1);"
Thread_resume(u) ==
  /\ CASE pc[u] = "idle" ->
            /\ hist.called \cap {"resume", "cancel"} = {}
            /\ pc' = [pc EXCEPT ![u] = "r_reset"]
            /\ hist' = [hist EXCEPT !.called = @ \cup {"resume"}]
            /\ UNCHANGED <<wait, barrier>>
       [] pc[u] = "r_reset" ->
            /\ Barrier_reset(u, SwapWorker, "r_wait", "r_max")
            /\ UNCHANGED hist
       [] pc[u] = "r_wait" ->
            /\ Barrier_reset_wake(u, SwapWorker, "r_max")
            /\ UNCHANGED hist
       [] pc[u] = "r_max" ->
            /\ Barrier_reset_maxCount(u, SwapWorker, 1, "idle")
            /\ hist' = [hist EXCEPT !.done = @ \cup {"resume"}]
            /\ UNCHANGED wait
       [] OTHER -> FALSE
  /\ UNCHANGED <<local, thread, queue, job>>

\* multiJobThreadQueue::cancel called by the controlling thread
ThreadQueue_cancel(u) ==
  /\ CASE pc[u] = "idle" ->
            /\ "cancel" \notin hist.called
            /\ ThreadQueue_cancel_check(u, SwapWorker, "c_lock", "idle")
            /\ hist' = [hist EXCEPT
                 !.called = @ \cup {"cancel"},
                 !.done = IF isRunning(SwapWorker) THEN @ ELSE @ \cup {"cancel"}]
       [] pc[u] = "c_lock" ->
            /\ ThreadQueue_cancel_lock(u, SwapWorker, "c_spin")
            /\ UNCHANGED hist
       [] pc[u] = "c_spin" ->
            /\ ThreadQueue_cancel_spin(u, SwapWorker, "idle")
            /\ hist' = [hist EXCEPT
                 !.done = IF isRunning(SwapWorker) THEN @ ELSE @ \cup {"cancel"}]
       [] OTHER -> FALSE
  /\ UNCHANGED local

\* Thread::waitForCompletion called on the worker by the thread t
WaitForCompletion(t) ==
  /\ pc[t] \in {"idle", "wfc_park", "wfc_wait"}
  /\ Thread_waitForCompletion(t, SwapWorker, "idle", "wfc_park", "wfc_wait", "done")
  /\ UNCHANGED <<local, barrier, thread, queue, job, hist>>

NextPause ==
  \/ \E t \in PoolProducers : MultiThreadQueue_add(t) \/ ProducerStep(t)
  \/ RunStep(SwapWorker)
  \/ ThreadQueue_run_pauseWake(SwapWorker)
  \/ \E u \in Users : Thread_pause(u) \/ Thread_resume(u) \/ ThreadQueue_cancel(u)
  \/ WaitForCompletion("main")
  \/ \E t \in Threads : SpuriousWake(t)

SpecPause == InitSwap /\ [][NextPause]_vars

\* every thread that can run does run, and a call that was made goes on to its
\* end; nobody has to call add(), pause(), resume() or cancel()
FairPause ==
  /\ SpecPause
  /\ WF_vars(RunStep(SwapWorker) \/ ThreadQueue_run_pauseWake(SwapWorker))
  /\ \A t \in PoolProducers : WF_vars(ProducerStep(t))
  /\ \A u \in Users :
       WF_vars(pc[u] # "idle"
                 /\ (Thread_pause(u) \/ Thread_resume(u) \/ ThreadQueue_cancel(u)))
  /\ WF_vars(WaitForCompletion("main"))

\* C12: waitForCompletion() returns only when m_running is false, and a caller
\* that is inside it when runInternal has cleared m_running does return.
C12_WaitForCompletionReturns ==
  /\ [](pc["main"] = "done" => ~isRunning(SwapWorker))
  /\ (pc["main"] \in {"wfc_park", "wfc_wait"} /\ ~isRunning(SwapWorker))
       ~> (pc["main"] = "done")

\* pause() has returned and neither resume() nor cancel() has been called since
PauseInForce == "pause" \in hist.done /\ hist.called \cap {"resume", "cancel"} = {}

\* the worker is at its checkpoint: about to call interrupt(), inside it, or
\* parked in m_pauseBarrier->block()
AtCheckpoint(w) == pc[w] \in {"interrupt", "pause_block", "pause_wait"}

\* C14: cancel() releases a pause: when the worker is parked at its pause
\* checkpoint after pause() and cancel() is called, with no resume() call,
\* cancel() returns and the worker stops running.
C14_CancelReleasesPause ==
  [](PauseInForce /\ ParkedAtPause(SwapWorker)
       => []("cancel" \in hist.called /\ "resume" \notin hist.called
               => <>("cancel" \in hist.done /\ ~isRunning(SwapWorker))))

\* C15: after pause() has returned, a worker that comes to its next interrupt()
\* stays at that checkpoint for as long as neither resume() nor cancel() is called.
C15_PauseHolds ==
  [](PauseInForce /\ pc[SwapWorker] = "interrupt"
       => [](PauseInForce => AtCheckpoint(SwapWorker)))

\* C16: after resume() has returned, with no cancel() call (and pause() is
\* never called after resume()), no thread is parked at the pause barrier.
C16_ResumeReleases ==
  ("resume" \in hist.done /\ "cancel" \notin hist.called)
    => ~ParkedAtPause(SwapWorker)

\* ------------------------------------- SpecJob: the state and callbacks of a multiJob
\* one job, READY, with a callback installed, that is held by several threads:
\* two workers that both took it from a queue it was added to twice (run():
\* "if(job->isReady()) job->start();"), a thread that calls cancel() on it, and
\* a consumer whose nextJob finds it canceled at the head of a queue
\* ("(*iter)->finished();").  Every thread makes its call once.
TheJob == 1

\* multiJob::setState, "int newState = m_state; ... newState | value": m_state
\* is read before m_jobMutex is taken
setState_read(t, value, writePc) ==
  /\ local' = [local EXCEPT
       ![t].newState = setState(job[TheJob].m_state, value, TRUE)]
  /\ pc' = [pc EXCEPT ![t] = writePc]
  /\ UNCHANGED <<job, hist>>

\* multiJob::setState, the callback chosen by the if / else if chain
Callback(oldState, currentState) ==
  CASE multiJob_READY \cap oldState = {} /\ multiJob_READY \cap currentState # {}
         -> "ready"
    [] multiJob_RUNNING \cap oldState = {} /\ multiJob_RUNNING \cap currentState # {}
         -> "started"
    [] multiJob_CANCEL \cap oldState = {} /\ multiJob_CANCEL \cap currentState # {}
         -> "canceled"
    [] multiJob_FINISHED \cap oldState = {} /\ multiJob_FINISHED \cap currentState # {}
         -> "finished"
    [] OTHER -> "none"

\* m_jobMutex of TheJob is not held across a step by any thread (local[t].locks:
\* the mutexes t holds while it calls out)
JobMutexFree == \A t \in Threads : "m_jobMutex" \notin local[t].locks

\* multiJob::setState, the section under m_jobMutex: stateChangedFlag, oldState,
\* "m_state = newState"
setState_write(t, callbackPc) ==
  /\ JobMutexFree
  /\ job' = [job EXCEPT ![TheJob].m_state = local[t].newState]
  /\ local' = [local EXCEPT
       ![t].oldState = job[TheJob].m_state,
       ![t].callback =
         IF local[t].newState # job[TheJob].m_state
         THEN Callback(job[TheJob].m_state, local[t].newState) ELSE "none"]
  /\ pc' = [pc EXCEPT ![t] = callbackPc]
  /\ UNCHANGED hist

\* multiJob::setState, "if(stateChangedFlag&&callback)": the callback is called
\* after m_jobMutex was left, and setState returns; op is the call that
\* returns with it, if any
setState_callback(t, retPc, op) ==
  /\ hist' = [hist EXCEPT
       !.callbacks = IF local[t].callback # "none"
                     THEN Append(@, local[t].callback) ELSE @,
       !.done = @ \cup op]
  /\ local' = [local EXCEPT ![t] = Local0]
  /\ pc' = [pc EXCEPT ![t] = retPc]
  /\ UNCHANGED job

\* multiJobThreadQueue::run, "if(job->isReady()) job->start();", and
\* multiJob::start: setState(multiJob_RUNNING), run(), "if(!(state() &
\* multiJob_CANCEL)) setState(multiJob_FINISHED);"
Job_start(w) ==
  /\ CASE pc[w] = "idle" ->
            /\ JobMutexFree
            /\ pc' = [pc EXCEPT ![w] = IF isReady(TheJob) THEN "start" ELSE "done"]
            /\ UNCHANGED <<local, job, hist>>
       [] pc[w] = "start" -> setState_read(w, multiJob_RUNNING, "start_write")
       [] pc[w] = "start_write" -> setState_write(w, "start_callback")
       [] pc[w] = "start_callback" -> setState_callback(w, "body", {})
       [] pc[w] = "body" ->
            /\ JobMutexFree
            /\ pc' = [pc EXCEPT ![w] = IF isCanceled(TheJob) THEN "done" ELSE "fin"]
            /\ hist' = [hist EXCEPT !.done =
                 IF isCanceled(TheJob) THEN @ ELSE @ \cup {"run"}]
            /\ UNCHANGED <<local, job>>
       [] pc[w] = "fin" -> setState_read(w, multiJob_FINISHED, "fin_write")
       [] pc[w] = "fin_write" -> setState_write(w, "fin_callback")
       [] pc[w] = "fin_callback" -> setState_callback(w, "done", {})
       [] OTHER -> FALSE
  /\ UNCHANGED <<wait, barrier, thread, queue>>

\* multiJob::cancel, "setState(multiJob_CANCEL);"
Job_cancel(u) ==
  /\ CASE pc[u] = "idle" ->
            /\ setState_read(u, multiJob_CANCEL, "cancel_write")
       [] pc[u] = "cancel_write" -> setState_write(u, "cancel_callback")
       [] pc[u] = "cancel_callback" -> setState_callback(u, "done", {"cancel"})
       [] OTHER -> FALSE
  /\ UNCHANGED <<wait, barrier, thread, queue>>

\* multiJob::setPercentComplete, called by the body of the job: m_jobMutex is
\* taken by a lock_guard and percentCompleteChanged is called under it
Job_setPercentComplete(w) ==
  /\ CASE pc[w] = "body" ->
            /\ JobMutexFree
            /\ "setPercentComplete" \notin hist.called
            /\ local' = [local EXCEPT ![w].locks = {"m_jobMutex"},
                                      ![w].callback = "percentCompleteChanged"]
            /\ hist' = [hist EXCEPT !.called = @ \cup {"setPercentComplete"}]
            /\ pc' = [pc EXCEPT ![w] = "percent_callback"]
       [] pc[w] = "percent_callback" ->
            /\ hist' = [hist EXCEPT !.callbacks = Append(@, local[w].callback)]
            /\ local' = [local EXCEPT ![w] = Local0]
            /\ pc' = [pc EXCEPT ![w] = "body"]
       [] OTHER -> FALSE
  /\ UNCHANGED <<wait, barrier, thread, queue, job>>

\* multiJobQueue::nextJob, the loop over the canceled jobs at the head of the
\* list, "(*iter)->finished();", which runs under the lock_guard on
\* m_jobQueueMutex: multiJob::finished computes
\* (m_state & multiJob_CANCEL) | multiJob_FINISHED under m_jobMutex, and
\* resetState sets m_state to multiJob_NONE, if it differs, and calls setState
Job_finished(c) ==
  /\ CASE pc[c] = "idle" ->
            /\ isCanceled(TheJob)
            /\ JobMutexFree
            /\ local' = [local EXCEPT
                 ![c].locks = {"m_jobQueueMutex"},
                 ![c].value =
                 (job[TheJob].m_state \cap multiJob_CANCEL) \cup multiJob_FINISHED]
            /\ hist' = [hist EXCEPT !.called = @ \cup {"finished"}]
            /\ pc' = [pc EXCEPT ![c] = "reset"]
            /\ job' = job
       [] pc[c] = "reset" ->
            /\ JobMutexFree
            /\ IF local[c].value # job[TheJob].m_state
               THEN /\ job' = [job EXCEPT ![TheJob].m_state = multiJob_NONE]
                    /\ pc' = [pc EXCEPT ![c] = "reset_read"]
                    /\ hist' = hist
               ELSE /\ job' = job
                    /\ pc' = [pc EXCEPT ![c] = "done"]
                    /\ hist' = [hist EXCEPT !.done = @ \cup {"finished"}]
            /\ local' = local
       [] pc[c] = "reset_read" -> setState_read(c, local[c].value, "reset_write")
       [] pc[c] = "reset_write" -> setState_write(c, "reset_callback")
       [] pc[c] = "reset_callback" -> setState_callback(c, "done", {"finished"})
       [] OTHER -> FALSE
  /\ UNCHANGED <<wait, barrier, thread, queue>>

\* the job as its constructor leaves it (m_state multiJob_READY)
InitJob ==
  /\ pc = [t \in Threads |-> "idle"]
  /\ wait = [t \in Threads |-> NoWait]
  /\ local = [t \in Threads |-> Local0]
  /\ barrier = [b \in BarrierNames |-> Barrier(1)]
  /\ thread = [w \in Workers |-> multiJobThreadQueue(NoQueue)]
  /\ queue = [q \in Queues |-> multiJobQueue]
  /\ job = [j \in Jobs |-> multiJob]
  /\ hist = Hist0

NextJob ==
  \/ \E w \in Workers : Job_start(w)
  \/ \E w \in Workers : Job_setPercentComplete(w)
  \/ \E u \in Users : Job_cancel(u)
  \/ Job_finished("c1")

SpecJob == InitJob /\ [][NextJob]_vars

\* no call that changes the state of the job is in progress; a worker inside
\* the body of the job ("body") is between the two setState calls of start()
AtRest == \A t \in Threads : pc[t] \in {"idle", "body", "done"}

\* C17: whenever no state-changing call on the job is in progress, at most one
\* of the bits READY, RUNNING and FINISHED is set, in particular while the
\* body of the job runs and after start() has returned.
C17_ExclusiveBits ==
  AtRest => Cardinality(job[TheJob].m_state \ multiJob_CANCEL) <= 1

\* C18: once cancel() on the job has returned, the CANCEL bit stays set until
\* ready(), running(), finished() or resetState is called, also while another
\* thread executes setState on the job.
C18_CancelSticky ==
  ("cancel" \in hist.done /\ "finished" \notin hist.called) => isCanceled(TheJob)

Delivered(cb) == \E i \in 1..Len(hist.callbacks) : hist.callbacks[i] = cb

\* C19: the finished callback is delivered if and only if the body returned
\* from start() with the CANCEL bit not set or the queue discarded the job as a
\* canceled head element in nextJob: once the queue's finished() call has
\* returned the callback has been delivered, and it is never delivered without
\* one of the two.
C19_FinishedIff ==
  /\ "finished" \in hist.done => Delivered("finished")
  /\ Delivered("finished") => ("run" \in hist.done \/ "finished" \in hist.called)

\* C20: in a lifecycle round (ready() is not called here: there is one round)
\* at most one started and at most one finished callback are delivered, and
\* started is delivered before finished.
C20_StartedThenFinishedOnce ==
  \A i, k \in 1..Len(hist.callbacks) :
    /\ (hist.callbacks[i] = "started" /\ hist.callbacks[k] = "started") => i = k
    /\ (hist.callbacks[i] = "finished" /\ hist.callbacks[k] = "finished") => i = k
    /\ (hist.callbacks[i] = "started" /\ hist.callbacks[k] = "finished") => i < k

FinishedCallbacks ==
  Cardinality({i \in 1..Len(hist.callbacks) : hist.callbacks[i] = "finished"})

\* C21: when nextJob discards a canceled job at the head of the queue, the
\* finished callback of the discarded job fires exactly once: once the
\* queue's finished() call on the job has returned, one finished callback
\* has been delivered.
C21_DiscardedFinishedOnce ==
  "finished" \in hist.done => FinishedCallbacks = 1

\* C22: whenever a thread is about to invoke a user callback (it has chosen
\* the callback and has not called it yet) it holds no library mutex.
C22_CallbackWithoutMutex ==
  \A t \in Threads : local[t].callback # "none" => local[t].locks = {}

\* thread t is in a lifecycle callback of TheJob: setState has left m_jobMutex
\* with the callback chosen, and the call has not returned yet
InLifecycleCallback(t) ==
  local[t].callback \in {"ready", "started", "canceled", "finished"}

\* C23: the lifecycle callbacks of one job are serialized: no two threads are
\* in a ready/started/canceled/finished callback of the job at the same time.
C23_HooksSerialized ==
  \A t1, t2 \in Threads :
    (InLifecycleCallback(t1) /\ InLifecycleCallback(t2)) => t1 = t2

\* ------------------------------------------------- SpecBlock: one multi::Block
\* the Block of TheQueue, constructed with releaseFlag false; two threads call
\* block() on it, one thread calls release() once, and one calls set(flag) and
\* reset()

\* release() has returned and neither set(false) nor reset() was called since
ReleaseInForce == "release" \in hist.done /\ "unset" \notin hist.called

\* a thread calls Block::block
BlockCaller(t) ==
  /\ CASE pc[t] = "idle" ->
            /\ hist.calls[t] < MaxBlockCalls
            /\ "destroy" \notin hist.called
            /\ Block_block(t, TheQueue, "blk_wait", "idle")
            /\ hist' = [hist EXCEPT
                 !.calls[t] = @ + 1,
                 !.passed = IF ReleaseInForce THEN @ \cup {t} ELSE @]
       [] pc[t] = "blk_wait" ->
            /\ Block_block_wake(t, TheQueue, "idle")
            /\ hist' = hist
       [] OTHER -> FALSE
  /\ UNCHANGED <<local, barrier, thread, job>>

\* the controlling threads: Block::release (once), Block::set and Block::reset
BlockControl(u) ==
  /\ "destroy" \notin hist.called
  /\ \/ /\ u \in Users
        /\ "release" \notin hist.called
        /\ queue' = Block_release(queue, TheQueue)
        /\ wait' = NotifyAll(wait, ConditionVariable(TheQueue))
        /\ hist' = [hist EXCEPT !.called = @ \cup {"release"},
                                !.done = @ \cup {"release"}]
     \/ /\ u \in PoolProducers
        /\ hist.userOps < MaxSetCalls
        /\ \E releaseFlag \in BOOLEAN :
             /\ queue' = Block_set(queue, TheQueue, releaseFlag)
             /\ hist' = [hist EXCEPT
                  !.userOps = @ + 1,
                  !.called = IF ~releaseFlag /\ "release" \in hist.done
                             THEN @ \cup {"unset"} ELSE @]
        /\ wait' = NotifyAll(wait, ConditionVariable(TheQueue))
     \/ /\ u \in PoolProducers
        /\ hist.userOps < MaxSetCalls
        /\ queue' = Block_reset(queue, TheQueue)
        /\ hist' = [hist EXCEPT
             !.userOps = @ + 1,
             !.called = IF "release" \in hist.done THEN @ \cup {"unset"} ELSE @]
        /\ wait' = wait
  /\ UNCHANGED <<pc, local, barrier, thread, job>>

\* Block::~Block, called by the thread that owns the Block once no new call
\* is made on it: release(), then, under the mutex, "if(m_waitCount>0)" the
\* wait on m_conditionalWait until m_waitCount is below 1
Block_destroy(t) ==
  /\ CASE pc[t] = "idle" ->
            /\ "destroy" \notin hist.called
            /\ queue' = Block_release(queue, TheQueue)
            /\ wait' = NotifyAll(wait, ConditionVariable(TheQueue))
            /\ hist' = [hist EXCEPT !.called = @ \cup {"destroy"}]
            /\ pc' = [pc EXCEPT ![t] = "dtor_lock"]
       [] pc[t] = "dtor_lock" ->
            /\ IF queue[TheQueue].m_block.m_waitCount > 0
               THEN /\ wait' = Park(wait, t, BlockConditionalWait(TheQueue))
                    /\ pc' = [pc EXCEPT ![t] = "dtor_wait"]
               ELSE /\ wait' = wait
                    /\ pc' = [pc EXCEPT ![t] = "destroyed"]
            /\ UNCHANGED <<queue, hist>>
       [] pc[t] = "dtor_wait" ->
            /\ wait[t].notified
            /\ IF queue[TheQueue].m_block.m_waitCount < 1
               THEN /\ wait' = Unpark(wait, t)
                    /\ pc' = [pc EXCEPT ![t] = "destroyed"]
               ELSE /\ wait' = [wait EXCEPT ![t].notified = FALSE]
                    /\ pc' = pc
            /\ UNCHANGED <<queue, hist>>
       [] OTHER -> FALSE
  /\ UNCHANGED <<local, barrier, thread, job>>

NextBlock ==
  \/ \E t \in Consumers : BlockCaller(t)
  \/ \E t \in Consumers \cup {"main"} : SpuriousWake(t)
  \/ \E u \in Users \cup PoolProducers : BlockControl(u)
  \/ Block_destroy("main")

SpecBlock == InitQueue /\ [][NextBlock]_vars

\* C24: after release() has returned, and as long as neither set(false) nor
\* reset() is called, every block() call returns without parking and leaves
\* m_waitCount unchanged.
C24_ReleasedBlockPasses ==
  [][\A t \in Consumers :
       (ReleaseInForce /\ pc[t] = "idle" /\ hist'.calls[t] # hist.calls[t])
         => /\ pc'[t] = "idle"
            /\ wait'[t] = NoWait
            /\ queue'[TheQueue].m_block.m_waitCount
                 = queue[TheQueue].m_block.m_waitCount]_vars

\* a block() call made while the release was in force has returned, after
\* another thread had been parked in block() before the release
C24_Witness ==
  /\ ReleaseInForce
  /\ \E t \in Consumers :
       t \in hist.passed /\ pc[t] = "idle" /\ hist.calls[t] = MaxBlockCalls

\* --------------------------------------- SpecAdd: multiJobQueue::add, repeated
\* one thread calls add(job, guaranteeUniqueFlag) on TheQueue, which has a
\* callback installed, one call after the other
Event(ev, j, unique) == [ev |-> ev, job |-> j, unique |-> unique]

QueueAdd(t) ==
  /\ CASE pc[t] = "idle" ->
            /\ hist.adds < MaxRepeats
            /\ \E j \in Jobs, unique \in BOOLEAN :
                 /\ local' = [local EXCEPT ![t].job = j, ![t].flag = unique]
                 /\ hist' = [hist EXCEPT !.adds = @ + 1,
                               !.log = Append(@, Event("add", j, unique))]
            /\ pc' = [pc EXCEPT ![t] = "add_check"]
            /\ UNCHANGED <<wait, queue, job>>
       [] pc[t] = "add_check" ->
            /\ Queue_add_check(t, TheQueue, local[t].job, local[t].flag,
                               "add_ready", "idle")
            /\ local' = IF pc'[t] = "idle"
                        THEN [local EXCEPT ![t] = Local0] ELSE local
            /\ UNCHANGED <<job, hist>>
       [] pc[t] = "add_ready" ->
            /\ Queue_add_ready(t, local[t].job, "add_push")
            /\ hist' = [hist EXCEPT !.log =
                 Append(@, Event("adding", local[t].job, local[t].flag))]
            /\ UNCHANGED <<wait, local, queue>>
       [] pc[t] = "add_push" ->
            /\ Queue_add_push(t, TheQueue, local[t].job, "add_set")
            /\ UNCHANGED <<wait, local, job, hist>>
       [] pc[t] = "add_set" ->
            /\ Queue_add_set(t, TheQueue, "idle")
            /\ hist' = [hist EXCEPT !.log =
                 Append(@, Event("added", local[t].job, local[t].flag))]
            /\ local' = [local EXCEPT ![t] = Local0]
            /\ job' = job
       [] OTHER -> FALSE
  /\ UNCHANGED <<barrier, thread>>

NextAdd == \E t \in PoolProducers : QueueAdd(t)

SpecAdd == InitQueue /\ [][NextAdd]_vars

\* the positions of the log, from a to b, that hold the event ev of job j
Events(ev, j, a, b) ==
  {n \in a..b : hist.log[n].ev = ev /\ hist.log[n].job = j}

\* the last two add() calls were add(j, true), made at positions i and k of
\* the log, both have returned, and j was not in the queue before the first
TwiceInARow(j, i, k) ==
  /\ \A t \in PoolProducers : pc[t] = "idle"
  /\ i < k
  /\ hist.log[i] = Event("add", j, TRUE)
  /\ hist.log[k] = Event("add", j, TRUE)
  /\ \A n \in (i + 1)..Len(hist.log) : n # k => hist.log[n].ev # "add"
  /\ Events("added", j, 1, i) = {}

\* C25: add(j, true) called twice in a row, on a queue that does not hold j,
\* leaves j in the queue exactly once, the size grown by one, with one adding
\* and one added callback, both fired by the first call.
C25_UniqueAddIdempotent ==
  \A j \in Jobs : \A i, k \in 1..Len(hist.log) :
    TwiceInARow(j, i, k) =>
      /\ Count(queue[TheQueue].m_jobQueue, j) = 1
      /\ Len(queue[TheQueue].m_jobQueue)
           = Cardinality({n \in 1..i : hist.log[n].ev = "added"}) + 1
      /\ Cardinality(Events("adding", j, i, k)) = 1
      /\ Cardinality(Events("added", j, i, k)) = 1
      /\ k = Len(hist.log)

\* the two calls were made after another job was added
C25_Witness ==
  \E j \in Jobs : \E i, k \in 1..Len(hist.log) :
    TwiceInARow(j, i, k) /\ i > 1

\* ------------------------------------- SpecReset: one barrier, with reset()
\* the parties call block() on the barrier "bar" as in SpecBarrier and the
\* main thread calls reset() on it, at any time
BarrierReset(t) ==
  /\ CASE pc[t] = "idle" ->
            /\ hist.userOps < MaxResets
            /\ Barrier_reset(t, "bar", "reset_wait", "idle")
       [] pc[t] = "reset_wait" -> Barrier_reset_wake(t, "bar", "idle")
       [] OTHER -> FALSE
  /\ hist' = IF pc'[t] = "idle"
             THEN [hist EXCEPT !.userOps = @ + 1, !.base = Arrived,
                               !.done = @ \cup {"reset"}]
             ELSE IF pc[t] = "idle"
                  THEN [hist EXCEPT !.called = @ \cup {"released"}]
                  ELSE hist
  /\ UNCHANGED <<local, thread, queue, job>>

NextReset ==
  \/ \E t \in Parties : PartyBlock(t) \/ PartyWake(t)
  \/ \E t \in Parties \cup {"main"} : SpuriousWake(t)
  \/ BarrierReset("main")

SpecReset == InitBarrier /\ [][NextReset]_vars

\* block() calls that have arrived since the last reset() returned
ArrivedSinceReset == Arrived - hist.base

\* C26: when reset() returns, having released parked threads or not, the
\* barrier is as a newly constructed one: m_blockedCount and m_waitCount are
\* 0, m_maxCount is kept and no thread is in block(); and in the round that
\* follows no block() call returns before m_maxCount calls have arrived.
C26_ResetMakesFresh ==
  /\ [][hist'.userOps # hist.userOps
          => /\ barrier'["bar"] = Barrier(barrier["bar"].m_maxCount)
             /\ \A t \in Parties : pc'[t] = "idle" /\ wait'[t] = NoWait]_vars
  /\ []((pc["main"] = "idle" /\ ArrivedSinceReset - Parked > 0)
          => ArrivedSinceReset >= barrier["bar"].m_maxCount)

\* a reset() released parked threads and returned, and the round of
\* m_maxCount = 3 block() calls made after it has completed
C26_Witness ==
  /\ "released" \in hist.called
  /\ pc["main"] = "idle"
  /\ barrier["bar"].m_maxCount = 3
  /\ ArrivedSinceReset = 3
  /\ Parked = 0

\* ------------------- SpecResize: multiJobMultiThreadQueue::setNumberOfThreads
\* a pool of Len(WorkerSeq) workers constructed on a queue that holds up to
\* MaxQueued jobs (a job may have been added twice), and the main thread, which
\* calls setNumberOfThreads(nThreads) with nThreads up to the current size.
\* (A larger nThreads constructs new worker objects; the workers of the model
\* are those of WorkerSeq.)
ThePool == "pool"

\* a multiJobMultiThreadQueue: m_jobQueue and m_threadQueueList, as the
\* constructor's setNumberOfThreads(nThreads) leaves them
multiJobMultiThreadQueue(q, nThreads) ==
  [m_jobQueue |-> q, m_threadQueueList |-> SubSeq(WorkerSeq, 1, nThreads)]

ThreadQueueList == thread[ThePool].m_threadQueueList

\* the iterator at "m_threadQueueList.begin() + 0"
DropPosition_begin(nThreads) == 1

\* setNumberOfThreads, "iter = m_threadQueueList.begin()+nThreads": the position
\* of the element the loop cancels and erases (erase returns the iterator to
\* the element that follows, which is at the same position)
DropPosition(nThreads) == nThreads + 1

MultiThreadQueue_setNumberOfThreads(t) ==
  LET w == ThreadQueueList[DropPosition(local[t].x)] IN
  /\ CASE pc[t] = "idle" ->
            /\ hist.userOps < MaxResizes
            /\ \E nThreads \in 0..Len(ThreadQueueList) :
                 IF nThreads < Len(ThreadQueueList)
                 THEN /\ local' = [local EXCEPT ![t].x = nThreads]
                      /\ pc' = [pc EXCEPT ![t] = "snt_check"]
                 ELSE UNCHANGED <<local, pc>>
            /\ hist' = [hist EXCEPT !.userOps = @ + 1]
            /\ UNCHANGED <<wait, barrier, thread, queue, job>>
       [] pc[t] = "snt_check" ->
            /\ ThreadQueue_cancel_check(t, w, "snt_lock", "snt_erase")
            /\ UNCHANGED <<local, hist>>
       [] pc[t] = "snt_lock" ->
            /\ ThreadQueue_cancel_lock(t, w, "snt_spin")
            /\ UNCHANGED <<local, hist>>
       [] pc[t] = "snt_spin" ->
            /\ ThreadQueue_cancel_spin(t, w, "snt_erase")
            /\ UNCHANGED <<local, hist>>
       [] pc[t] = "snt_erase" ->
            /\ thread' = [thread EXCEPT ![ThePool].m_threadQueueList =
                            Erase(@, DropPosition(local[t].x))]
            /\ hist' = [hist EXCEPT !.cancelReturned = @ \cup {w}]
            /\ IF Len(ThreadQueueList) - 1 > local[t].x
               THEN /\ pc' = [pc EXCEPT ![t] = "snt_check"]
                    /\ local' = local
               ELSE /\ pc' = [pc EXCEPT ![t] = "idle"]
                    /\ local' = [local EXCEPT ![t] = Local0]
            /\ UNCHANGED <<wait, barrier, queue, job>>
       [] OTHER -> FALSE

\* the queue with the jobs that were added to it before the pool was
\* constructed on it (add() leaves the block released), and the pool as its
\* constructor leaves it: every worker bound to the queue and started
InitResize ==
  /\ pc = [t \in Threads |-> IF t \in Workers THEN "ri_start" ELSE "idle"]
  /\ wait = [t \in Threads |-> NoWait]
  /\ local = [t \in Threads |-> Local0]
  /\ barrier = [b \in BarrierNames |-> Barrier(1)]
  /\ thread = [w \in Workers \cup {ThePool} |->
                 IF w = ThePool
                 THEN multiJobMultiThreadQueue(TheQueue, Len(WorkerSeq))
                 ELSE [multiJobThreadQueue(TheQueue) EXCEPT !.m_running = TRUE,
                                                            !.m_thread = TRUE]]
  /\ \E n \in 0..MaxQueued : \E jobs \in [1..n -> Jobs] :
       queue = [q \in Queues |->
                  IF q = TheQueue
                  THEN [m_jobQueue |-> jobs, m_block |-> Block(n > 0)]
                  ELSE multiJobQueue]
  /\ job = [j \in Jobs |-> multiJob]
  /\ hist = Hist0

NextResize ==
  \/ \E w \in Workers : RunStep(w) \/ SpuriousWake(w)
  \/ MultiThreadQueue_setNumberOfThreads("main")

SpecResize == InitResize /\ [][NextResize]_vars

InResize == pc["main"] # "idle"

\* the workers the pool keeps: during setNumberOfThreads(nThreads) the first
\* nThreads of the list, otherwise all of the list
Kept ==
  IF InResize THEN SubSeq(ThreadQueueList, 1, local["main"].x) ELSE ThreadQueueList

\* the jobs a worker that is being dropped holds (m_currentJob, or the job
\* its loop has taken from the queue)
HeldByDropped ==
  {thread[w].m_currentJob : w \in Workers \ Range(Kept)}
    \cup {local[w].job : w \in Workers \ Range(Kept)}

\* what C27 states of every step, but for the jobs the kept workers execute:
\* the kept workers are running, not done, not interrupted and bound to the
\* queue of the pool; a step of setNumberOfThreads(nThreads) leaves the first
\* nThreads elements of the list and their workers as they are; the worker it
\* erases is the one at the end of the kept part, it is done and not running;
\* the call returns with nThreads workers in the list; and a call with the
\* current size changes nothing
ResizeFrame ==
  /\ [](\A i \in 1..Len(Kept) :
          /\ isRunning(Kept[i])
          /\ ~thread[Kept[i]].m_doneFlag
          /\ ~isInterruptable(Kept[i])
          /\ thread[Kept[i]].m_jobQueue = thread[ThePool].m_jobQueue)
  /\ [][/\ InResize =>
             /\ SubSeq(ThreadQueueList', 1, local["main"].x) = Kept
             /\ \A i \in 1..Len(Kept) :
                  thread'[Kept[i]].m_threadMutex = thread[Kept[i]].m_threadMutex
        /\ ThreadQueueList' # ThreadQueueList =>
             /\ Len(ThreadQueueList') = Len(ThreadQueueList) - 1
             /\ \A w \in Range(ThreadQueueList) \ Range(ThreadQueueList') :
                  thread[w].m_doneFlag /\ ~isRunning(w)
        /\ (InResize /\ ~InResize') => Len(ThreadQueueList') = local["main"].x
        /\ (~InResize /\ ~InResize' /\ hist'.userOps # hist.userOps) =>
             UNCHANGED <<wait, barrier, thread, queue, job>>]_vars

\* the statement of C27 as it is written: setNumberOfThreads(n) with n below
\* the size cancels and drops the last (size - n) workers and leaves the first
\* n untouched, and no step cancels a job that a kept worker is executing.
C27_AsStated ==
  /\ ResizeFrame
  /\ [][\A i \in 1..Len(Kept) :
          LET j == thread[Kept[i]].m_currentJob IN
          (j # NoJob /\ ~isCanceled(j)) => job'[j].m_state \cap multiJob_CANCEL = {}]_vars

\* C27: setNumberOfThreads(n) with n below the size cancels and drops exactly
\* the last (size - n) workers and leaves the first n untouched (same objects,
\* running, bound to the queue of the pool); a job a kept worker is executing
\* is not canceled unless a dropped worker holds the same job object; and a
\* second call with the same n changes nothing.
C27_ShrinkKeepsFirst ==
  /\ ResizeFrame
  /\ [][\A i \in 1..Len(Kept) :
          LET j == thread[Kept[i]].m_currentJob IN
          (j # NoJob /\ ~isCanceled(j) /\ j \notin HeldByDropped)
            => job'[j].m_state \cap multiJob_CANCEL = {}]_vars

\* setNumberOfThreads(1) has returned: the second worker was dropped while it
\* held a job, which is canceled, and the first worker is executing another
\* job, which is not
C27_Witness ==
  /\ ~InResize
  /\ ThreadQueueList = <<WorkerSeq[1]>>
  /\ hist.cancelReturned # {}
  /\ \E j1, j2 \in Jobs :
       /\ thread[WorkerSeq[1]].m_currentJob = j1
       /\ ~isCanceled(j1)
       /\ isCanceled(j2)

\* --------------------- SpecPoolSwap: multiJobMultiThreadQueue::setJobQueue
\* a pool of one worker (SwapWorker) constructed on q1, a producer of q1, and
\* a user thread that calls setJobQueue on the pool
MultiThreadQueue_setJobQueue(u) ==
  /\ CASE pc[u] = "idle" ->
            \* m_mutex is taken, "m_jobQueue = q;"
            /\ hist.userOps < MaxSwaps
            /\ \E q \in Queues \cup {NoQueue} :
                 /\ thread' = [thread EXCEPT ![ThePool].m_jobQueue = q]
                 /\ local' = [local EXCEPT ![u].queue = q]
            /\ hist' = [hist EXCEPT !.userOps = @ + 1]
            /\ pc' = [pc EXCEPT ![u] = "sjq_call"]
       [] pc[u] = "sjq_call" ->
            \* "m_threadQueueList[idx]->setJobQueue(m_jobQueue);": the worker's
            \* m_threadMutex is taken, "if (m_jobQueue == jqueue) return;"
            /\ MutexFree(SwapWorker)
            /\ thread' = [thread EXCEPT ![SwapWorker].m_threadMutex = u]
            /\ pc' = [pc EXCEPT ![u] =
                        IF thread[SwapWorker].m_jobQueue = local[u].queue
                        THEN "sjq_unlock" ELSE "sjq_pause"]
            /\ UNCHANGED <<local, hist>>
       [] OTHER -> FALSE
  /\ UNCHANGED <<wait, barrier, queue, job>>

InitPoolSwap ==
  /\ pc = [t \in Threads |-> IF t = SwapWorker THEN "ri_start" ELSE "idle"]
  /\ wait = [t \in Threads |-> NoWait]
  /\ local = [t \in Threads |-> Local0]
  /\ barrier = [b \in BarrierNames |-> Barrier(1)]
  /\ thread = [w \in Workers \cup {ThePool} |->
                 IF w = ThePool THEN multiJobMultiThreadQueue(TheQueue, 1)
                 ELSE IF w = SwapWorker
                 THEN [multiJobThreadQueue(TheQueue) EXCEPT !.m_running = TRUE,
                                                            !.m_thread = TRUE]
                 ELSE multiJobThreadQueue(NoQueue)]
  /\ queue = [q \in Queues |-> multiJobQueue]
  /\ job = [j \in Jobs |-> multiJob]
  /\ hist = Hist0

NextPoolSwap ==
  \/ \E t \in PoolProducers : MultiThreadQueue_add(t) \/ ProducerStep(t)
  \/ RunStep(SwapWorker)
  \/ ThreadQueue_run_pauseWake(SwapWorker)
  \/ \E u \in Users : MultiThreadQueue_setJobQueue(u) \/ SetJobQueueStep(u)
  \/ \E t \in Threads : SpuriousWake(t)

SpecPoolSwap == InitPoolSwap /\ [][NextPoolSwap]_vars

\* C28: in every reachable state of a pool, the intermediate states of
\* setJobQueue(q) and setNumberOfThreads(n) included, every worker in the
\* list of the pool is bound to the queue handle of the pool.
C28_WorkersOnPoolQueue ==
  \A i \in 1..Len(ThreadQueueList) :
    thread[ThreadQueueList[i]].m_jobQueue = thread[ThePool].m_jobQueue

\* ------------------------- SpecFail: a job body that throws inside a worker
\* the pool of SpecResize, with job bodies that may throw an exception that
\* is not a Thread::Interrupt, and the main thread, which may call cancel()
\* and then waitForCompletion() on the pool (cancel sets m_doneFlag)

\* multiJob::start, "run();" throws.  Neither multiJob::start nor
\* multiJobThreadQueue::run has a handler and Thread::runInternal catches
\* Interrupt only, so the exception leaves the function of the std::thread:
\* std::terminate is called, and the process, with all its threads, ends
multiJob_run_throw(w) ==
  /\ pc[w] = "body"
  /\ hist' = [hist EXCEPT !.failed = @ \cup {w}]
  /\ pc' = [t \in Threads |-> "terminate"]
  /\ wait' = [t \in Threads |-> NoWait]
  /\ UNCHANGED <<local, barrier, thread, queue, job>>

NextFail ==
  \/ \E w \in Workers : RunStep(w) \/ multiJob_run_throw(w) \/ SpuriousWake(w)
  \/ MultiThreadQueue_cancel("main")
  \/ MainStep("main")

SpecFail == InitResize /\ [][NextFail]_vars

\* every worker that can run does run
FairFail == SpecFail /\ \A w \in Workers : WF_vars(RunStep(w))

\* C29: when the body of a job fails with an error that is not an Interrupt,
\* the worker that ran it clears m_currentJob and goes on polling the queue
\* (it comes to the next interrupt() of its loop) unless m_doneFlag was set.
C29_FailedBodyKeepsPolling ==
  \A w \in Workers :
    (w \in hist.failed) ~>
      (thread[w].m_currentJob = NoJob /\ (pc[w] = "interrupt" \/ thread[w].m_doneFlag))

\* C30: isPaused() is true only while the worker thread is parked at its pause
\* barrier: it is false for a running worker that has passed interrupt()
\* checkpoints and was never paused, and for a worker after resume().
C30_PausedOnlyWhenParked ==
  isPaused(SwapWorker) => ParkedAtPause(SwapWorker)

\* no block() and no reset() call on the barrier "bar" is in progress
BarrierAtRest == \A t \in Parties \cup {"main"} : pc[t] = "idle"

\* C31: in every state in which no block() or reset() call is in progress,
\* 0 <= m_waitCount <= m_blockedCount <= m_maxCount, after any sequence of
\* block() and reset() calls.
C31_CountersOrdered ==
  BarrierAtRest =>
    /\ 0 <= barrier["bar"].m_waitCount
    /\ barrier["bar"].m_waitCount <= barrier["bar"].m_blockedCount
    /\ barrier["bar"].m_blockedCount <= barrier["bar"].m_maxCount

\* C32: ~Block does not complete while a thread is still inside block(),
\* after any sequence of block(), set(), release() and reset() calls.
C32_DestructorWaits ==
  pc["main"] = "destroyed" => \A t \in Consumers : pc[t] # "blk_wait"

\* the notifications of the bits that rise from oldState to currentState, in
\* the order READY, RUNNING, CANCEL, FINISHED
Rising(oldState, currentState) ==
  LET One(bit, cb) == IF bit \cap (currentState \ oldState) # {} THEN <<cb>> ELSE <<>>
  IN One(multiJob_READY, "ready") \o One(multiJob_RUNNING, "started")
       \o One(multiJob_CANCEL, "canceled") \o One(multiJob_FINISHED, "finished")

\* C33: every setState call delivers one notification for each bit that rises
\* from oldState to the new m_state, in the order READY, RUNNING, CANCEL,
\* FINISHED, and none for the other bits.
C33_OneCallbackPerRisingBit ==
  [][\A t \in Threads :
       (pc[t] \in {"start_callback", "fin_callback", "cancel_callback", "reset_callback"}
          /\ pc'[t] # pc[t])
         => hist'.callbacks
              = hist.callbacks \o Rising(local[t].oldState, local[t].newState)]_vars


\* no call on the queue is in progress
QueueAtRest == \A t \in Producers \cup Users \cup Consumers : pc[t] = "idle"

\* the step in which removeByName, removeById, remove or nextJob returns
RemoveOrNextJobReturns ==
  \/ \E t \in Users : UserRemoveByNameSet(t) \/ UserRemoveById(t) \/ UserRemove(t)
  \/ \E t \in Consumers : ConsumerDone(t)

\* C34: when removeByName, removeById, remove(job) or nextJob returns while no
\* other call on the queue is in progress, m_block.m_release equals
\* "m_jobQueue is not empty".
C34_ReleasedIffNotEmpty ==
  [][(RemoveOrNextJobReturns /\ QueueAtRest')
       => (queue'[TheQueue].m_block.m_release = (queue'[TheQueue].m_jobQueue # <<>>))]_vars


\* ------------------------ SpecLock: the mutexes of the library and the order
\* in which its functions take them.  Every function is reduced to the lock
\* and unlock operations it performs, calls into other library functions
\* inlined; a branch of the code is a choice that is made when the thread
\* comes to it, whatever the data (every branch can be taken in every state),
\* and a loop is its body taken at most once.  A wait on a condition variable
\* gives its mutex back, so that it holds nothing while it waits.
\* local[t].x is what is left of the running call, local[t].locks the
\* mutexes thread t holds, in the order in which it took them.

\* a mutex: the member that holds it and the object it belongs to
Mutex(member, object) == <<member, object>>
Lock(m) == [op |-> "lock", m |-> m, alt |-> <<>>]
Unlock(m) == [op |-> "unlock", m |-> m, alt |-> <<>>]
Choice(alts) == [op |-> "choice", m |-> <<>>, alt |-> alts]
Locked(m, body) == <<Lock(m)>> \o body \o <<Unlock(m)>>
Either(a, b) == <<Choice(<<a, b>>)>>
Opt(a) == Either(<<>>, a)

\* multiJob::setState: m_jobMutex around the update of m_state, the
\* notification is called after it is given back
multiJob_setState_locks(j) == Locked(Mutex("m_jobMutex", j), <<>>)

\* the functions of multiJob in Thread.h
multiJob_locks(op, j) ==
  LET J == Locked(Mutex("m_jobMutex", j), <<>>)
      \* resetState: "if(value != m_state) { ...unlock(); setState(value); }"
      resetLocks == J \o Opt(multiJob_setState_locks(j))
  IN CASE op \in {"state", "isReady", "isCanceled", "isStopped", "name"} -> J
       \* setPercentComplete: the callback is called under m_jobMutex; it is
       \* code of the application
       [] op = "setPercentComplete" -> J
       [] op = "cancel" -> multiJob_setState_locks(j)
       [] op = "ready" -> resetLocks
       [] op = "finished" -> J \o resetLocks

\* multiJob::start: setState(RUNNING), run(), state(), setState(FINISHED)
multiJob_start_locks(j) ==
  multiJob_setState_locks(j) \o multiJob_locks("state", j)
     \o Opt(multiJob_setState_locks(j))

\* one of the jobs, chosen when the thread comes to it
AnyJob(F(_)) == <<Choice([j \in Jobs |-> F(j)])>>

\* a queue that is not the one of the library: every function takes
\* m_jobQueueMutex while it holds the mutex of a job
multiJobQueue_locks_inverted(op) ==
  LET Q == Mutex("m_jobQueueMutex", TheQueue)
  IN AnyJob(LAMBDA j : Locked(Mutex("m_jobMutex", j), Locked(Q, <<>>)))

\* multiJobQueue: m_jobQueueMutex, and the mutex of m_block inside
\* Block::set, Block::release and Block::block
multiJobQueue_locks(op) ==
  LET Q == Mutex("m_jobQueueMutex", TheQueue)
      B == Locked(Mutex("Block::m_mutex", TheQueue), <<>>)
      Name(j) == multiJob_locks("name", j)
      Ready(j) == multiJob_locks("ready", j)
      Stopped(j) == multiJob_locks("isStopped", j)
      \* "while (iter != end && (*iter)->isCanceled()) { (*iter)->finished(); ... }"
      Canceled(j) == multiJob_locks("isCanceled", j) \o Opt(multiJob_locks("finished", j))
  IN CASE op = "add" ->
            \* unique and found: m_block.set(true) under m_jobQueueMutex
            Either(Locked(Q, B),
                   Locked(Q, <<>>) \o AnyJob(Ready) \o Locked(Q, <<>>) \o B)
       [] op = "removeByName" -> Locked(Q, Opt(AnyJob(Name))) \o B
       [] op = "removeById" -> Locked(Q, Opt(AnyJob(Name)) \o B)
       [] op \in {"remove", "clear", "isEmpty", "size", "setCallback"} -> Locked(Q, <<>>)
       [] op = "removeStoppedJobs" -> Locked(Q, Opt(AnyJob(Stopped)))
       [] op = "releaseBlock" -> B
       [] op = "nextJob" ->
            Locked(Q, <<>>) \o Opt(B)
              \o Locked(Q, Either(B, Opt(AnyJob(Canceled)) \o B))

\* Thread and its pause barrier: Barrier::reset(int) takes the mutex of the
\* barrier twice, getBlockedCount and block once
Thread_locks(op, w) ==
  LET P == Locked(Mutex("Barrier::m_mutex", w), <<>>)
  IN CASE op \in {"pause", "resume"} -> P \o P
       [] op \in {"isPaused", "interrupt"} -> P

\* multiJobThreadQueue
multiJobThreadQueue_locks(op, w) ==
  LET W == Mutex("m_threadMutex", w)
      Cancel(j) == multiJob_locks("cancel", j)
      release == multiJobQueue_locks("releaseBlock")
      \* "if(job->isReady()) job->start();" between the two updates of m_currentJob
      Process(j) == Locked(W, <<>>) \o multiJob_locks("isReady", j)
                       \o Opt(multiJob_start_locks(j)) \o Locked(W, <<>>)
      \* "if(job&&m_doneFlag&&job->isReady()) job->cancel();"
      Discard(j) == multiJob_locks("isReady", j) \o Opt(Cancel(j))
      nextJob == Locked(W, <<>>) \o Opt(multiJobQueue_locks("nextJob"))
  IN CASE op = "setJobQueue" ->
            Locked(W, Opt(Thread_locks("pause", w)
                            \o Opt(Thread_locks("isPaused", w) \o release)
                            \o Thread_locks("resume", w)))
       [] op \in {"getJobQueue", "currentJob", "isValidQueue", "isDone",
                  "isProcessingJob"} -> Locked(W, <<>>)
       [] op = "cancelCurrentJob" -> Locked(W, Opt(AnyJob(Cancel)))
       [] op = "setDone" -> Locked(W, <<>>) \o Opt(Locked(W, <<>>) \o Opt(release))
       [] op = "cancel" ->
            Opt(Locked(W, Opt(AnyJob(Cancel)) \o Opt(release))
                  \o Opt(Locked(W, Opt(release))))
       [] op \in {"isEmpty", "hasJobsToProcess"} ->
            Locked(W, multiJobQueue_locks("isEmpty"))
       [] op = "nextJob" -> nextJob
       [] op = "run" ->
            \* one turn of the loop, or what follows the loop
            Either(Thread_locks("interrupt", w) \o Locked(W, <<>>) \o nextJob
                     \o Opt(AnyJob(Process)),
                   Locked(W, <<>>) \o Opt(AnyJob(Discard)))

\* multiJobMultiThreadQueue; cancel and waitForCompletion walk
\* m_threadQueueList without m_mutex
multiJobMultiThreadQueue_locks(op) ==
  LET M == Mutex("m_mutex", ThePool)
      Each(f) == multiJobThreadQueue_locks(f, WorkerSeq[1])
                   \o multiJobThreadQueue_locks(f, WorkerSeq[2])
      Last(f) == multiJobThreadQueue_locks(f, WorkerSeq[2])
  IN CASE op = "getJobQueue" -> Locked(M, <<>>)
       [] op = "getNumberOfThreads" -> Locked(M, <<>>)
       [] op = "setJobQueue" -> Locked(M, Each("setJobQueue"))
       [] op = "setNumberOfThreads" ->
            Locked(M, Opt(Either(Last("setJobQueue"), Last("cancel"))))
       [] op \in {"numberOfBusyThreads", "areAllThreadsBusy"} ->
            Locked(M, Each("isProcessingJob"))
       [] op = "hasJobsToProcess" -> Locked(M, Each("hasJobsToProcess"))
       [] op = "cancel" -> Each("cancel")

\* the mutexes somebody holds
HeldBy(t) == Range(local[t].locks)
LockFree(m) == \A t \in Threads : m \notin HeldBy(t)

\* a thread begins a call: a worker thread runs run(), a user thread calls
\* the pool, a producer calls a worker, the queue or a job
LockCall(t) ==
  /\ pc[t] = "idle"
  /\ \E f \in {"setJobQueue", "setNumberOfThreads", "hasJobsToProcess", "cancel",
               "add", "removeByName", "nextJob", "setPercentComplete"} :
       /\ CASE f = "cancel" -> t \in Users \cup Producers
            [] f \in {"setJobQueue", "setNumberOfThreads", "hasJobsToProcess"} ->
                 t \in Users
            [] OTHER -> t \in Producers
       /\ \E w \in Workers, j \in Jobs :
            local' = [local EXCEPT ![t].x =
              CASE t \in Users -> multiJobMultiThreadQueue_locks(f)
                [] f = "cancel" -> multiJobThreadQueue_locks(f, w)
                [] f = "setPercentComplete" -> multiJob_locks(f, j)
                [] OTHER -> multiJobQueue_locks(f)]
       /\ pc' = [pc EXCEPT ![t] = f]
  /\ UNCHANGED <<wait, barrier, thread, queue, job, hist>>

\* the OS thread of a worker takes a turn of run()
LockRun(w) ==
  /\ pc[w] = "idle"
  /\ local' = [local EXCEPT ![w].x = multiJobThreadQueue_locks("run", w)]
  /\ pc' = [pc EXCEPT ![w] = "run"]
  /\ UNCHANGED <<wait, barrier, thread, queue, job, hist>>

\* the next operation of the running call: a branch is chosen, a mutex is
\* taken when nobody holds it, or given back; the call returns after the last
LockStep(t) ==
  /\ pc[t] # "idle"
  /\ IF local[t].x = <<>>
     THEN /\ pc' = [pc EXCEPT ![t] = "idle"]
          /\ local' = local
     ELSE LET i == Head(local[t].x) IN
          /\ pc' = pc
          /\ CASE i.op = "choice" ->
                    \E k \in DOMAIN i.alt :
                      local' = [local EXCEPT ![t].x = i.alt[k] \o Tail(@)]
               [] i.op = "lock" ->
                    /\ LockFree(i.m)
                    /\ local' = [local EXCEPT ![t].x = Tail(@),
                                              ![t].locks = Append(@, i.m)]
               [] i.op = "unlock" ->
                    local' = [local EXCEPT ![t].x = Tail(@),
                                           ![t].locks = SelectSeq(@, LAMBDA m : m # i.m)]
  /\ UNCHANGED <<wait, barrier, thread, queue, job, hist>>

InitLock ==
  /\ pc = [t \in Threads |-> "idle"]
  /\ wait = [t \in Threads |-> NoWait]
  /\ local = [t \in Threads |-> [Local0 EXCEPT !.x = <<>>, !.locks = <<>>]]
  /\ barrier = [b \in BarrierNames |-> Barrier(1)]
  /\ thread = [w \in Workers \cup {ThePool} |->
                 IF w = ThePool THEN multiJobMultiThreadQueue(TheQueue, 2)
                 ELSE multiJobThreadQueue(TheQueue)]
  /\ queue = [q \in Queues |-> multiJobQueue]
  /\ job = [j \in Jobs |-> multiJob]
  /\ hist = Hist0

LockThreads == {"u1", "p1", "w1"}

NextLock ==
  \/ \E t \in LockThreads \ Workers : LockCall(t)
  \/ \E w \in LockThreads \cap Workers : LockRun(w)
  \/ \E t \in LockThreads : LockStep(t)

SpecLock == InitLock /\ [][NextLock]_vars

\* the place of a mutex in the order pool, worker, queue, job; the mutexes
\* of a Block and of a Barrier are taken last
Level(m) ==
  CASE m[1] = "m_mutex" -> 1
    [] m[1] = "m_threadMutex" -> 2
    [] m[1] = "m_jobQueueMutex" -> 3
    [] m[1] = "m_jobMutex" -> 4
    [] OTHER -> 5

\* thread t is about to take a mutex that another thread holds
WaitsFor(t, u) ==
  /\ pc[t] # "idle" /\ local[t].x # <<>>
  /\ Head(local[t].x).op = "lock"
  /\ t # u /\ Head(local[t].x).m \in HeldBy(u)

\* a set of threads each of which waits for a mutex another one of them holds
LockCycle ==
  \E S \in SUBSET LockThreads :
    S # {} /\ \A t \in S : \E u \in S : WaitsFor(t, u)

\* C35: every thread holds its mutexes in the order pool mutex, worker mutex,
\* queue mutex, job mutex (it never takes a pool or worker mutex while it
\* holds a queue mutex, nor a pool, worker or queue mutex while it holds a
\* job mutex), and no cycle of threads that wait for each other's mutexes
\* is reachable.
C35_LockOrder ==
  /\ \A t \in LockThreads : \A a, b \in DOMAIN local[t].locks :
       a < b => Level(local[t].locks[a]) < Level(local[t].locks[b])
  /\ ~LockCycle

\* a thread holds a pool, a worker and a job mutex, taken in that order, while
\* another thread that holds the queue mutex waits for the job mutex
C35_Witness ==
  \E t, u \in LockThreads :
    /\ Len(local[t].locks) = 3 /\ Level(local[t].locks[3]) = 4
    /\ Len(local[u].locks) = 1 /\ Level(local[u].locks[1]) = 3
    /\ WaitsFor(u, t)


\* ------------------------- SpecStart: Thread::start called by several threads
\* one Thread object, StartedThread; the producers call start() on it, at any
\* moment and as often as they like.  m_thread holds the handle of the
\* std::thread made last: the name of its OS thread, one of OsThreads.  An OS
\* thread is "unborn" before its std::thread is made, "exited" when it has
\* left runInternal and "joined" when somebody has joined it
StartedThread == WorkerSeq[1]
OsThreads == Consumers \cup Users

\* Thread::start, "if(isInterruptable()||isRunning()) return; m_running = true;
\* if(m_thread) { if(m_thread->joinable()) m_thread->join(); }
\* m_thread = std::make_shared<std::thread>(&Thread::runInternal, this);"
\* No mutex is held; every access to m_running and m_thread is a step
Thread_start(c) ==
  LET w == StartedThread IN
  /\ CASE pc[c] = "idle" ->
            /\ pc' = [pc EXCEPT ![c] =
                 IF isInterruptable(w) \/ isRunning(w) THEN "idle" ELSE "st_set"]
            /\ UNCHANGED <<thread, hist, local, wait>>
       [] pc[c] = "st_set" ->
            /\ thread' = [thread EXCEPT ![w].m_running = TRUE]
            /\ pc' = [pc EXCEPT ![c] = "st_join"]
            /\ UNCHANGED <<hist, local, wait>>
       [] pc[c] = "st_join" ->
            \* join returns when the OS thread of the handle has ended
            LET h == thread[w].m_thread IN
            /\ h # NoThread => pc[h] \in {"exited", "joined"}
            /\ pc' = [pc EXCEPT ![c] = "st_spawn",
                                ![h] = IF h # NoThread THEN "joined" ELSE @]
            /\ UNCHANGED <<thread, hist, local, wait>>
       [] pc[c] = "st_spawn" ->
            \* the new std::thread: its OS thread enters runInternal
            /\ \E o \in OsThreads :
                 /\ pc[o] = "unborn"
                 /\ pc' = [pc EXCEPT ![c] = "st_assign", ![o] = "ri_start"]
                 /\ local' = [local EXCEPT ![c].x = o]
            /\ hist' = [hist EXCEPT !.launches[w] = @ + 1]
            /\ UNCHANGED <<thread, wait>>
       [] pc[c] = "st_assign" ->
            \* "m_thread = ...": the handle m_thread held is destroyed, and
            \* ~thread() of a joinable std::thread calls std::terminate
            LET h == thread[w].m_thread IN
            /\ thread' = [thread EXCEPT ![w].m_thread = local[c].x]
            /\ pc' = IF h # NoThread /\ pc[h] # "joined"
                     THEN [t \in Threads |-> "terminate"]
                     ELSE [pc EXCEPT ![c] = "idle"]
            /\ local' = [local EXCEPT ![c] = Local0]
            /\ UNCHANGED <<hist, wait>>
       [] OTHER -> FALSE
  /\ UNCHANGED <<barrier, queue, job>>

\* Thread::runInternal in the OS thread o: "if(!isInterruptable()) run();",
\* run() returns, "m_running = false; m_runningCondition.notify_all();"
Thread_runInternal_os(o) ==
  LET w == StartedThread IN
  /\ CASE pc[o] = "ri_start" ->
            /\ pc' = [pc EXCEPT ![o] = IF isInterruptable(w) THEN "ri_end" ELSE "run"]
            /\ UNCHANGED <<thread, wait>>
       [] pc[o] = "run" ->
            /\ pc' = [pc EXCEPT ![o] = "ri_end"]
            /\ UNCHANGED <<thread, wait>>
       [] pc[o] = "ri_end" ->
            /\ thread' = [thread EXCEPT ![w].m_running = FALSE]
            /\ wait' = NotifyAll(wait, RunningCondition(w))
            /\ pc' = [pc EXCEPT ![o] = "exited"]
       [] OTHER -> FALSE
  /\ UNCHANGED <<local, barrier, queue, job, hist>>

InitStart ==
  /\ pc = [t \in Threads |-> IF t \in OsThreads THEN "unborn" ELSE "idle"]
  /\ wait = [t \in Threads |-> NoWait]
  /\ local = [t \in Threads |-> Local0]
  /\ barrier = [b \in BarrierNames |-> Barrier(1)]
  /\ thread = [w \in Workers |-> [Thread EXCEPT !.m_thread = NoThread]]
  /\ queue = [q \in Queues |-> multiJobQueue]
  /\ job = [j \in Jobs |-> multiJob]
  /\ hist = Hist0

NextStart ==
  \/ \E c \in Producers : Thread_start(c)
  \/ \E o \in OsThreads : Thread_runInternal_os(o)

SpecStart == InitStart /\ [][NextStart]_vars

\* C36: at no time do two OS threads execute run() of the same Thread, also
\* when start() is called by two threads at once or while the previous run
\* is finishing.
C36_OneRunAtATime ==
  \A o1, o2 \in OsThreads : pc[o1] = "run" /\ pc[o2] = "run" => o1 = o2


\* C37: a worker whose m_doneFlag is set does not start the job it holds: a
\* job that the worker has dequeued and not yet started when m_doneFlag is
\* set is never started by that worker.
C37_NoStartOnceDone ==
  [][\A w \in Workers :
       (pc[w] = "start" /\ pc'[w] = "body") => ~thread[w].m_doneFlag]_vars


\* C38: no double dispatch: nextJob calls, however many run at once, return a
\* job no more often than it was put into the queue; a job that is put into
\* the queue once is returned by at most one nextJob call.
C38_NoDoubleDispatch ==
  \A j \in Jobs :
    Count(hist.popped, j) + Count(queue[TheQueue].m_jobQueue, j) <= hist.addCalls[j]

\* two overlapping nextJob calls on a queue that held one job, added once:
\* one has got the job and the other has got nothing
C38_Witness ==
  \E j \in Jobs :
    /\ hist.addCalls[j] = 1 /\ hist.popped = <<j>>
    /\ pc["c1"] = "nj_ret" /\ pc["c2"] = "nj_ret"
    /\ {local["c1"].job, local["c2"].job} = {j, NoJob}


\* ---------------------- SpecRestart: cancel() and later calls on a worker
\* the worker of SpecSwap; the user thread calls cancel() and setJobQueue()
\* on it, one call after the other in any order, while a producer adds jobs.
\* Beside it BaseThread is a plain multi::Thread, on which the main thread
\* calls cancel() and start(), one call after the other in any order
BaseThread == WorkerSeq[2]

\* the main thread calls Thread::cancel, "setCancel(true);": m_interrupt is
\* set, and resume() resets a pause barrier at which nobody waits; or it
\* calls Thread::start
Thread_cancelOrStart(c) ==
  /\ CASE pc[c] = "idle" ->
            \/ /\ thread' = [thread EXCEPT ![BaseThread].m_interrupt = TRUE]
               /\ hist' = [hist EXCEPT !.called = @ \cup {"Thread::cancel"}]
               /\ UNCHANGED <<pc, wait, barrier, queue, job>>
            \/ /\ hist.launches[BaseThread] < MaxSwaps
               /\ Thread_start_check(c, BaseThread, "b_set", "idle")
       [] pc[c] = "b_set" -> Thread_start_set(c, BaseThread, "b_spawn")
       [] pc[c] = "b_spawn" -> Thread_start_spawn(c, BaseThread, "idle")
       [] OTHER -> FALSE
  /\ UNCHANGED local

\* the OS thread of BaseThread: runInternal, run() and the end of runInternal
Thread_run(w) ==
  \/ Thread_runInternal(w, "base_run")
  \/ /\ pc[w] = "base_run"
     /\ pc' = [pc EXCEPT ![w] = "ri_end"]
     /\ UNCHANGED <<wait, local, barrier, thread, queue, job, hist>>
  \/ /\ Thread_runInternal_end(w)
     /\ w = BaseThread

NextRestart ==
  \/ \E t \in PoolProducers : MultiThreadQueue_add(t) \/ ProducerStep(t)
  \/ RunStep(SwapWorker)
  \/ ThreadQueue_run_pauseWake(SwapWorker)
  \/ \E u \in Users : \/ ThreadQueue_cancel(u)
                      \/ ThreadQueue_setJobQueue(u) \/ SetJobQueueStep(u)
  \/ Thread_cancelOrStart("main")
  \/ Thread_run(BaseThread)
  \/ \E t \in Threads : SpuriousWake(t)

SpecRestart == InitSwap /\ [][NextRestart]_vars

\* cancel() on the running worker has returned
Canceled == "cancel" \in hist.done /\ thread[SwapWorker].m_doneFlag

\* C39: cancellation is permanent.  m_doneFlag of a queue-bound worker stays
\* set, and after cancel() has returned no start() or setJobQueue() makes the
\* worker dequeue or start a job; m_interrupt of a base Thread stays set after
\* cancel(), and start() does not launch it again.
C39_CancelIsPermanent ==
  [][/\ thread[SwapWorker].m_doneFlag => thread'[SwapWorker].m_doneFlag
     /\ Canceled => /\ ~(pc[SwapWorker] = "nj_pop" /\ pc'[SwapWorker] # "nj_pop")
                    /\ ~(pc[SwapWorker] = "start" /\ pc'[SwapWorker] # "start")
     /\ isInterruptable(BaseThread) =>
          /\ isInterruptable(BaseThread)'
          /\ hist'.launches[BaseThread] = hist.launches[BaseThread]
          /\ ~(pc[BaseThread] # "base_run" /\ pc'[BaseThread] = "base_run")]_vars

\* after cancel() has returned, setJobQueue has started the worker again on a
\* queue that holds a job, and the worker has come back from nextJob with
\* nothing; the base Thread was started, ended, was canceled, and start() was
\* called again and has returned
C39_Witness ==
  /\ Canceled
  /\ pc[SwapWorker] = "gotjob" /\ local[SwapWorker].job = NoJob
  /\ thread[SwapWorker].m_jobQueue # NoQueue
  /\ queue[thread[SwapWorker].m_jobQueue].m_jobQueue # <<>>
  /\ isInterruptable(BaseThread) /\ hist.launches[BaseThread] = 1
  /\ pc[BaseThread] = "idle" /\ pc["main"] = "idle"


\* ------------------------ SpecReadd: add() of jobs that were used before
\* the queue of SpecQueue, empty, and jobs that carry any state bits from
\* what was done with them before (hist.base keeps them); a producer adds
\* them, a consumer polls with nextJob(false), and the user thread may call
\* cancel() on a job at any moment
InitReadd ==
  /\ pc = [t \in Threads |-> "idle"]
  /\ wait = [t \in Threads |-> NoWait]
  /\ local = [t \in Threads |-> Local0]
  /\ barrier = [b \in BarrierNames |-> Barrier(1)]
  /\ thread = [w \in Workers |-> Thread]
  /\ queue = [q \in Queues |-> multiJobQueue]
  /\ job \in [Jobs -> [m_state : SUBSET multiJob_ALL]]
  /\ hist = [Hist0 EXCEPT !.base = job]

NextReadd ==
  \/ ProducerAdd("p1") \/ ProducerStep("p1")
  \/ ConsumerNextJob("c2") \/ ConsumerPop("c2") \/ ConsumerDone("c2")
  \/ UserCancel("u1")

SpecReadd == InitReadd /\ [][NextReadd]_vars

\* C40: add(j) leaves the state of j exactly READY when j enters the queue,
\* whatever CANCEL, RUNNING or FINISHED bits j carried before the call, so
\* that nextJob returns it and does not discard it; only a cancel() called
\* since can have added a bit.
C40_AddedJobIsReady ==
  /\ \A t \in Producers :
       pc[t] = "add_push" =>
         (job[local[t].job].m_state = multiJob_READY \/ local[t].job \in hist.canceled)
  /\ \A j \in Jobs :
       InQueue(j) => (job[j].m_state = multiJob_READY \/ j \in hist.canceled)
  /\ \A j \in Range(hist.popped) :
       isReady(j) \/ j \in hist.canceled

\* a job that carried CANCEL, and not READY, before add() and on which cancel()
\* was not called since has been returned by nextJob, exactly READY
C40_Witness ==
  \E j \in Jobs :
    /\ hist.base[j].m_state \cap multiJob_CANCEL # {}
    /\ hist.base[j].m_state \cap multiJob_READY = {}
    /\ j \notin hist.canceled
    /\ hist.popped = <<j>> /\ job[j].m_state = multiJob_READY

=============================================================================
